---- MODULE Spec2Model ----
(***************************************************************************)
(* Model of the concurrent dispatch engine of the Ethereum transaction     *)
(* simulator: the per-account NonceManager (internal/transaction/nonce.go),*)
(* the transfer and deployment workers that share one NonceManager in the  *)
(* 'all' and 'deploy' modes, and the ParallelSender dispatch loops with    *)
(* their admission gate, balance checks and retrying send attempts.        *)
(***************************************************************************)
EXTENDS Integers, Sequences, FiniteSets, Bags, TLC

(***************************************************************************)
(* Bounds of the model.                                                    *)
(***************************************************************************)
NumCallers == 2
MaxCalls == 4
MaxRemote == 2

\* cfg.MaxTransactions values explored in 'all' and 'deploy' mode.
TxChoices == {2, 7}

\* Nonces handed out in 'all' / 'deploy' mode before the model stops.
MaxHanded == 4

\* Wallets of the parallel run, and attempts the loops dispatch before the
\* model stops them.
NumWallets == 2
MaxDispatch == 2

\* ParallelConfig settings explored.
ConfigChoices ==
    {[Value |-> 1, GasLimit |-> 2, MaxConcurrentRequests |-> 1,
      BalanceCheckInterval |-> 3, MaxRetries |-> 1],
     [Value |-> 1, GasLimit |-> 2, MaxConcurrentRequests |-> 2,
      BalanceCheckInterval |-> 2, MaxRetries |-> 2]}

\* ParallelConfig settings explored when the context may be cancelled.
CancelConfigChoices ==
    {[Value |-> 1, GasLimit |-> 2, MaxConcurrentRequests |-> 1,
      BalanceCheckInterval |-> 2, MaxRetries |-> 1]}

\* Fees the node quotes, and balances the wallets start with.
GasPrices == {1, 2}
BalanceChoices == {2, 8}

\* The longest balance check interval for which the attempts between two
\* checks are counted.
CountedInterval == 3

\* The lowest fee the node quotes.
MinGasPrice == CHOOSE p \in GasPrices : \A q \in GasPrices : p <= q

\* The long run: one funded wallet, MaxRetries unset (0) or set.
SustainedDispatch == 1001
SustainedBalance == 8
SustainedConfigChoices ==
    {[Value |-> 1, GasLimit |-> 2, MaxConcurrentRequests |-> 1,
      BalanceCheckInterval |-> 2, MaxRetries |-> r] : r \in {0, 1}}

\* Dispatches in the run explored under fairness.
FairDispatch == 1

\* The run that is joined: the first wallet cannot pay for a transaction, the
\* others can, the node rejects every submission, and there are enough
\* dispatches to log ten errors.
JoinDispatch == 11
JoinConfig ==
    [Value |-> 1, GasLimit |-> 2, MaxConcurrentRequests |-> 1,
     BalanceCheckInterval |-> 2, MaxRetries |-> 0]

\* Funding targets: one more than FundWallets has slots.
MaxTargets == 51

\* cfg.WalletCount values explored.
WalletCounts == {0, 1, 10, MaxTargets}

\* MIN_BALANCE as configured for the runs explored; the source account holds
\* one wei less, as much, or one wei more.
MinBalanceChoice == 2000000

\* The limits of config.Config explored: the defaults, the least and the
\* greatest values Validate accepts (with an interval of 3).
LimitChoices ==
    {[MaxConcurrentRequests |-> 2000, BalanceCheckInterval |-> 100,
      FundingConcurrency |-> 50],
     [MaxConcurrentRequests |-> 1, BalanceCheckInterval |-> 1,
      FundingConcurrency |-> 1],
     [MaxConcurrentRequests |-> 10000, BalanceCheckInterval |-> 3,
      FundingConcurrency |-> 1000]}

\* The end-to-end scenario: one account holding 1,000,000, gas limit 21,000,
\* payment 1, a balance check every 100 iterations, at the lowest fee (1).
\* The gate has one slot and a submission is tried twice.
ScenarioBalance == 1000000
ScenarioDispatch == 99
ScenarioConfig ==
    [Value |-> 1, GasLimit |-> 21000, MaxConcurrentRequests |-> 1,
     BalanceCheckInterval |-> 100, MaxRetries |-> 1]

\* The error value of a failed remote query (PendingNonceAt returned err).
Err == -1

Callers == 1..NumCallers

Max(a, b) == IF a >= b THEN a ELSE b

VARIABLES
    \* ---- NonceManager (one account) and the node it queries
    nm,           \* [currentNonce, initialized]: the NonceManager's fields
    mu,           \* holder of nm.mu, 0 when unlocked
    remote,       \* what PendingNonceAt reports for the account right now
    \* ---- callers of GetNextNonce / Reset
    pc,           \* position of each caller inside its call
    op,           \* the operation each caller is executing ("none" outside a call)
    pendingNonce, \* the lock holder's local pendingNonce (Err: the query failed)
    queries,      \* PendingNonceAt queries made by the lock holder's call
    calls,        \* number of calls started so far
    \* ---- history
    lastOp,       \* the operation of the call that returned last
    returned,     \* values returned by successful GetNextNonce, in lock order
    r0,           \* the remote pending count when the manager was created
    remoteMoved,  \* the remote pending count has changed since creation
    queryFailed,  \* some PendingNonceAt query has failed
    \* ---- 'all' / 'deploy' mode: two workers on one account (runAll, runDeploy)
    mode,            \* cfg.Mode
    maxTransactions, \* cfg.MaxTransactions
    delaySeconds,    \* cfg.DelaySeconds
    mainPc,          \* position of runAll / runDeploy
    wpc,             \* position of each worker in its loop
    wi,              \* each worker's loop index i
    wnonce,          \* each worker's local nonce
    wpending,        \* the deployer's local pendingNonce in WaitForNonceUpdate
    mempool,         \* nonces of the account's transactions the node accepted
    \* ---- ParallelSender (SendParallelTransactions)
    wallets,             \* ps.wallets
    psPc,                \* position of SendParallelTransactions
    cfg,                 \* ps.config after NewParallelSender
    maxDispatch,         \* attempts the loops dispatch before the model stops
    cancelled,           \* ctx is done
    semaphore,           \* len(semaphore): slots of the gate that are taken
    attempts,            \* bag of running sendTransactionWithRetry calls
    loopPc,              \* position of each wallet's loop
    balanceCheckCounter, \* each loop's counter, modulo BalanceCheckInterval
    chkBalance,          \* checkWalletBalance's local balance
    lastBalance,         \* w.lastBalance (Nil: none cached)
    cacheFresh,          \* time.Since(w.lastBalanceTime) < time.Second, as read by
                         \* the balance check in progress (FALSE outside one)
    balance,             \* what BalanceAt reports for each wallet
    gasPriceNow,         \* what SuggestGasPrice reports
    walletNm,            \* each wallet's NonceManager fields
    probeSleep,          \* verifyTransaction calls still sleeping
    probeCall,           \* verifyTransaction calls inside TransactionByHash
    totalSent,
    totalFailed,
    totalSucceeded,
    errors,              \* ps.errors, each entry <<wallet, what failed>>
    \* ---- history of the parallel run
    dispatched,          \* attempts each loop has started
    iterations,          \* iterations each loop has begun, counted up to
                         \* BalanceCheckInterval + 1
    endReason,           \* why each loop returned ("running" before)
    initBalance,         \* the balances when the run started
    sinceCheck,          \* attempts each loop has started since its last balance
                         \* check began (Nil before its first check, and for
                         \* intervals above CountedInterval)
    lateDispatched,      \* attempts each loop has started with the context
                         \* already cancelled
    \* ---- runParallel and wallet.Manager.FundWallets
    appCfg,          \* the config.Config runParallel is given
    rpPc,            \* position of runParallel
    srcBalance,      \* what BalanceAt reports for the source account
    hasBalance,      \* runParallel's local hasBalance
    newWallets,      \* len(newWallets): the wallets generated
    fundWaiting,     \* funding goroutines that have not acquired a slot yet
    fundSemaphore,   \* len(semaphore) of FundWallets: funding sends in progress
    fundSubmitted,   \* funding goroutines whose SendTransaction succeeded
    errChan,         \* len(errChan): errors the funding goroutines have sent
    fundErr,         \* what FundWallets returned: Nil before, 0 for nil, else
                     \* the count in "funding errors: %d wallets failed"
    \* ---- SendParallelTransactions, the variant bounded by MaxTransactions
    bsPc,            \* position of SendParallelTransactions
    bsCfg,           \* len(ps.wallets) and ps.config.MaxTransactions
    bsI,             \* each loop's index i
    bsSemaphore,     \* len(semaphore): attempts in progress
    bsErrChan,       \* len(errChan): errors sent and not yet received
    bsFailed,        \* attempts that have ended in an error
    errorCount       \* the errors SendParallelTransactions has counted

nmVars == <<nm, mu, remote>>
callerVars == <<pc, op, pendingNonce, queries, calls>>
histVars == <<lastOp, returned, r0, remoteMoved, queryFailed>>
cfgVars == <<mode, maxTransactions, delaySeconds>>
workerVars == <<mainPc, wpc, wi, wnonce, wpending, mempool>>
callerSide == <<nmVars, callerVars, histVars, cfgVars, workerVars>>
engineCfg == <<wallets, psPc, cfg, maxDispatch>>
gateVars == <<semaphore, attempts>>
loopVars == <<loopPc, balanceCheckCounter, chkBalance>>
nodeVars == <<balance, gasPriceNow>>
probeVars == <<probeSleep, probeCall>>
metricVars == <<totalSent, totalFailed, totalSucceeded, errors>>
histEngine == <<dispatched, iterations, endReason, initBalance, sinceCheck,
                lateDispatched>>
engineVars == <<engineCfg, cancelled, gateVars, loopVars, lastBalance,
                cacheFresh, nodeVars, walletNm, probeVars, metricVars, histEngine>>
setupVars == <<appCfg, rpPc, srcBalance, hasBalance, newWallets, fundWaiting,
               fundSemaphore, fundSubmitted, errChan, fundErr>>
boundedVars == <<bsPc, bsCfg, bsI, bsSemaphore, bsErrChan, bsFailed,
                 errorCount>>
outsideEngine == <<callerSide, setupVars, boundedVars>>
besidesNm == <<mu, remote, callerVars, histVars, cfgVars, workerVars>>
outsideCallers == <<engineVars, setupVars, boundedVars>>
vars == <<callerSide, engineVars, setupVars, boundedVars>>

(***************************************************************************)
(* NonceManager: pure effect of its methods on the fields.                 *)
(***************************************************************************)
NewNonceManager == [currentNonce |-> 0, initialized |-> FALSE]

\* nonce.go:45-48 -- adopt the network value when uninitialized or higher.
AdoptAlways(m, pending) ==
    [currentNonce |-> pending, initialized |-> TRUE]

AdoptOnlyUninitialized(m, pending) ==
    IF ~m.initialized
    THEN [currentNonce |-> pending, initialized |-> TRUE]
    ELSE m

Adopt(m, pending) ==
    IF ~m.initialized \/ pending > m.currentNonce
    THEN [currentNonce |-> pending, initialized |-> TRUE]
    ELSE m

\* nonce.go:53-55 -- the value handed out and the fields afterwards.
GetNextNonceValue(m, pending) == Adopt(m, pending).currentNonce

GetNextNonceFieldsNoIncrement(m, pending) == Adopt(m, pending)

GetNextNonceFields(m, pending) ==
    [Adopt(m, pending) EXCEPT !.currentNonce = @ + 1]

\* nonce.go:67-68
ResetKeepHigher(m, pending) ==
    [currentNonce |-> Max(m.currentNonce, pending), initialized |-> TRUE]

ResetFields(m, pending) ==
    [currentNonce |-> pending, initialized |-> TRUE]

(***************************************************************************)
(* Callers of one NonceManager.                                            *)
(***************************************************************************)
\* No transfer or deployment worker exists (the manager is used on its own).
NoWorkers ==
    /\ mode = "none"
    /\ maxTransactions = 0
    /\ delaySeconds = 0
    /\ mainPc = "none"
    /\ wpc = <<>>
    /\ wi = <<>>
    /\ wnonce = <<>>
    /\ wpending = 0
    /\ mempool = {}

\* runParallel is not part of the run.
NoSetup ==
    /\ appCfg = <<>>
    /\ rpPc = "none"
    /\ srcBalance = 0
    /\ hasBalance = FALSE
    /\ newWallets = 0
    /\ fundWaiting = 0
    /\ fundSemaphore = 0
    /\ fundSubmitted = 0
    /\ errChan = 0
    /\ fundErr = -1

\* The bounded variant of SendParallelTransactions is not part of the run.
NoBounded ==
    /\ bsPc = "none"
    /\ bsCfg = <<>>
    /\ bsI = <<>>
    /\ bsSemaphore = 0
    /\ bsErrChan = 0
    /\ bsFailed = 0
    /\ errorCount = 0

\* No ParallelSender exists (another mode is running).
NoEngine ==
    /\ wallets = {}
    /\ psPc = "none"
    /\ cfg = <<>>
    /\ maxDispatch = 0
    /\ cancelled = FALSE
    /\ semaphore = 0
    /\ attempts = EmptyBag
    /\ loopPc = <<>>
    /\ balanceCheckCounter = <<>>
    /\ chkBalance = <<>>
    /\ lastBalance = <<>>
    /\ cacheFresh = <<>>
    /\ balance = <<>>
    /\ gasPriceNow = 0
    /\ walletNm = <<>>
    /\ probeSleep = 0
    /\ probeCall = 0
    /\ totalSent = 0
    /\ totalFailed = 0
    /\ totalSucceeded = 0
    /\ errors = <<>>
    /\ dispatched = <<>>
    /\ iterations = <<>>
    /\ endReason = <<>>
    /\ initBalance = <<>>
    /\ sinceCheck = <<>>
    /\ lateDispatched = <<>>

InitNonce ==
    /\ nm = NewNonceManager
    /\ mu = 0
    /\ remote \in 0..MaxRemote
    /\ pc = [c \in Callers |-> "idle"]
    /\ op = [c \in Callers |-> "none"]
    /\ pendingNonce = 0
    /\ queries = 0
    /\ calls = 0
    /\ lastOp = "none"
    /\ returned = <<>>
    /\ r0 = remote
    /\ remoteMoved = FALSE
    /\ queryFailed = FALSE
    /\ NoWorkers
    /\ NoEngine
    /\ NoSetup
    /\ NoBounded

\* A caller starts GetNextNonce: nm.mu.Lock() is next (nonce.go:33-34).
CallGetNextNonce(c) ==
    /\ pc[c] = "idle"
    /\ calls < MaxCalls
    /\ pc' = [pc EXCEPT ![c] = "lock"]
    /\ op' = [op EXCEPT ![c] = "get"]
    /\ calls' = calls + 1
    /\ UNCHANGED <<nmVars, pendingNonce, queries, histVars>>
    /\ UNCHANGED <<cfgVars, workerVars>>
    /\ UNCHANGED outsideCallers

\* A caller starts Reset (nonce.go:59-60).
CallReset(c) ==
    /\ pc[c] = "idle"
    /\ calls < MaxCalls
    /\ pc' = [pc EXCEPT ![c] = "lock"]
    /\ op' = [op EXCEPT ![c] = "reset"]
    /\ calls' = calls + 1
    /\ UNCHANGED <<nmVars, pendingNonce, queries, histVars>>
    /\ UNCHANGED <<cfgVars, workerVars>>
    /\ UNCHANGED outsideCallers

\* nm.mu.Lock() (nonce.go:34, 60).
Lock(c) ==
    /\ pc[c] = "lock"
    /\ mu = 0
    /\ mu' = c
    /\ pc' = [pc EXCEPT ![c] = "query"]
    /\ queries' = 0
    /\ UNCHANGED <<nm, remote, op, pendingNonce, calls, histVars>>
    /\ UNCHANGED <<cfgVars, workerVars>>
    /\ UNCHANGED outsideCallers

\* nm.client.PendingNonceAt succeeds (nonce.go:39, 63).
QueryOk(c) ==
    /\ pc[c] = "query"
    /\ pendingNonce' = remote
    /\ queries' = queries + 1
    /\ pc' = [pc EXCEPT ![c] = "finish"]
    /\ UNCHANGED <<nmVars, op, calls, histVars>>
    /\ UNCHANGED <<cfgVars, workerVars>>
    /\ UNCHANGED outsideCallers

\* nm.client.PendingNonceAt fails (nonce.go:39-40, 63-64).
QueryErr(c) ==
    /\ pc[c] = "query"
    /\ pendingNonce' = Err
    /\ queries' = queries + 1
    /\ pc' = [pc EXCEPT ![c] = "finish"]
    /\ queryFailed' = TRUE
    /\ UNCHANGED <<nmVars, op, calls, lastOp, returned, r0, remoteMoved>>
    /\ UNCHANGED <<cfgVars, workerVars>>
    /\ UNCHANGED outsideCallers

\* GetNextNonce on a failed query: a variant that asks the node once more
\* before giving up.
GetNextNonceFailRetry(c) ==
    /\ pc[c] = "finish"
    /\ op[c] = "get"
    /\ pendingNonce = Err
    /\ IF queries < 2
       THEN /\ pc' = [pc EXCEPT ![c] = "query"]
            /\ UNCHANGED <<mu, op, lastOp>>
       ELSE /\ pc' = [pc EXCEPT ![c] = "idle"]
            /\ op' = [op EXCEPT ![c] = "none"]
            /\ lastOp' = "get"
            /\ mu' = 0
    /\ UNCHANGED <<nm, remote, pendingNonce, queries, calls, returned, r0,
                   remoteMoved, queryFailed>>
    /\ UNCHANGED <<cfgVars, workerVars>>
    /\ UNCHANGED outsideCallers

\* GetNextNonce returns the error; the deferred Unlock runs (nonce.go:40-42).
GetNextNonceFail(c) ==
    /\ pc[c] = "finish"
    /\ op[c] = "get"
    /\ pendingNonce = Err
    /\ mu' = 0
    /\ pc' = [pc EXCEPT ![c] = "idle"]
    /\ op' = [op EXCEPT ![c] = "none"]
    /\ lastOp' = "get"
    /\ UNCHANGED <<nm, remote, pendingNonce, queries, calls, returned, r0,
                   remoteMoved, queryFailed>>
    /\ UNCHANGED <<cfgVars, workerVars>>
    /\ UNCHANGED outsideCallers

\* GetNextNonce hands out a value; the deferred Unlock runs (nonce.go:45-55).
GetNextNonceReturn(c) ==
    /\ pc[c] = "finish"
    /\ op[c] = "get"
    /\ pendingNonce # Err
    /\ returned' = Append(returned, GetNextNonceValue(nm, pendingNonce))
    /\ nm' = GetNextNonceFields(nm, pendingNonce)
    /\ mu' = 0
    /\ pc' = [pc EXCEPT ![c] = "idle"]
    /\ op' = [op EXCEPT ![c] = "none"]
    /\ lastOp' = "get"
    /\ UNCHANGED <<remote, pendingNonce, queries, calls, r0, remoteMoved,
                   queryFailed>>
    /\ UNCHANGED <<cfgVars, workerVars>>
    /\ UNCHANGED outsideCallers

\* Reset returns the error (nonce.go:64-66).
ResetFail(c) ==
    /\ pc[c] = "finish"
    /\ op[c] = "reset"
    /\ pendingNonce = Err
    /\ mu' = 0
    /\ pc' = [pc EXCEPT ![c] = "idle"]
    /\ op' = [op EXCEPT ![c] = "none"]
    /\ lastOp' = "reset"
    /\ UNCHANGED <<nm, remote, pendingNonce, queries, calls, returned, r0,
                   remoteMoved, queryFailed>>
    /\ UNCHANGED <<cfgVars, workerVars>>
    /\ UNCHANGED outsideCallers

\* Reset stores the network value (nonce.go:67-69).
ResetReturn(c) ==
    /\ pc[c] = "finish"
    /\ op[c] = "reset"
    /\ pendingNonce # Err
    /\ nm' = ResetFields(nm, pendingNonce)
    /\ mu' = 0
    /\ pc' = [pc EXCEPT ![c] = "idle"]
    /\ op' = [op EXCEPT ![c] = "none"]
    /\ lastOp' = "reset"
    /\ UNCHANGED <<remote, pendingNonce, queries, calls, returned, r0,
                   remoteMoved, queryFailed>>
    /\ UNCHANGED <<cfgVars, workerVars>>
    /\ UNCHANGED outsideCallers

\* The node's pending count for the account changes: it catches up, jumps
\* ahead (transactions issued elsewhere) or falls back (transactions dropped).
RemoteChange ==
    /\ \E v \in 0..MaxRemote :
          /\ v # remote
          /\ remote' = v
    /\ remoteMoved' = TRUE
    /\ UNCHANGED <<nm, mu, callerVars, lastOp, returned, r0, queryFailed>>
    /\ UNCHANGED <<cfgVars, workerVars>>
    /\ UNCHANGED outsideCallers

GetNextNonceStep(c) ==
    \/ CallGetNextNonce(c)
    \/ Lock(c)
    \/ QueryOk(c)
    \/ QueryErr(c)
    \/ GetNextNonceFail(c)
    \/ GetNextNonceReturn(c)

ResetStep(c) ==
    \/ CallReset(c)
    \/ ResetFail(c)
    \/ ResetReturn(c)

\* Concurrent GetNextNonce calls only.
NextAllocate ==
    \/ \E c \in Callers : GetNextNonceStep(c)
    \/ RemoteChange

SpecAllocate == InitNonce /\ [][NextAllocate]_vars

\* Concurrent GetNextNonce and Reset calls.
NextNonce ==
    \/ \E c \in Callers : GetNextNonceStep(c)
    \/ \E c \in Callers : ResetStep(c)
    \/ RemoteChange

SpecNonce == InitNonce /\ [][NextNonce]_vars

(***************************************************************************)
(* 'all' and 'deploy' modes: after a Reset, the transfer worker            *)
(* (Sender.SendTransactions) and the deployment worker                     *)
(* (Deployer.DeployContract) run concurrently on one account and share the *)
(* NonceManager.                                                           *)
(***************************************************************************)
Transfer == 1
Deploy == 2
Workers == {Transfer, Deploy}

\* parallel.go:181, 207 (deploy mode: 30% / 70%) and 337, 359 (all mode).
TxCount(k) ==
    IF mode = "deploy"
    THEN IF k = Deploy THEN (maxTransactions * 3) \div 10
                       ELSE (maxTransactions * 7) \div 10
    ELSE maxTransactions

InitAll ==
    /\ nm = NewNonceManager
    /\ mu = 0
    /\ remote \in 0..MaxRemote
    /\ pc = <<>>
    /\ op = <<>>
    /\ pendingNonce = 0
    /\ queries = 0
    /\ calls = 0
    /\ lastOp = "none"
    /\ returned = <<>>
    /\ r0 = remote
    /\ remoteMoved = FALSE
    /\ queryFailed = FALSE
    /\ mode \in {"all", "deploy"}
    /\ maxTransactions \in TxChoices
    /\ delaySeconds \in {0, 1}
    /\ mainPc = "reset"
    /\ wpc = [k \in Workers |-> "idle"]
    /\ wi = [k \in Workers |-> 0]
    /\ wnonce = [k \in Workers |-> 0]
    /\ wpending = 0
    /\ mempool = {}
    /\ NoEngine
    /\ NoSetup
    /\ NoBounded

\* nonceManager.Reset succeeds; both goroutines are started
\* (parallel.go:166-176, 319-329).
MainResetOk ==
    /\ mainPc = "reset"
    /\ nm' = ResetFields(nm, remote)
    /\ mainPc' = "wait"
    /\ wpc' = [k \in Workers |-> "loop"]
    /\ UNCHANGED <<mu, remote, callerVars, histVars, cfgVars, wi, wnonce,
                   wpending, mempool>>
    /\ UNCHANGED outsideCallers

\* nonceManager.Reset fails: os.Exit(1) (parallel.go:166-169, 319-322).
MainResetFail ==
    /\ mainPc = "reset"
    /\ mainPc' = "exit"
    /\ queryFailed' = TRUE
    /\ UNCHANGED <<nmVars, callerVars, lastOp, returned, r0, remoteMoved,
                   cfgVars, wpc, wi, wnonce, wpending, mempool>>
    /\ UNCHANGED outsideCallers

\* Loop head: for i := 0; i < MaxTransactions; i++ (sender.go:97,
\* config.go:306); then GetNextNonce blocks on nm.mu.  The model stops
\* starting transactions once MaxHanded nonces have been handed out.
WorkerLoop(k) ==
    /\ wpc[k] = "loop"
    /\ wi[k] < TxCount(k) => Len(returned) < MaxHanded
    /\ wpc' = [wpc EXCEPT ![k] = IF wi[k] < TxCount(k) THEN "lock" ELSE "done"]
    /\ UNCHANGED <<nmVars, callerVars, histVars, cfgVars, mainPc, wi, wnonce,
                   wpending, mempool>>
    /\ UNCHANGED outsideCallers

\* GetNextNonce: nm.mu.Lock() (nonce.go:34).
WorkerLock(k) ==
    /\ wpc[k] = "lock"
    /\ mu = 0
    /\ mu' = k
    /\ wpc' = [wpc EXCEPT ![k] = "query"]
    /\ UNCHANGED <<nm, remote, callerVars, histVars, cfgVars, mainPc, wi,
                   wnonce, wpending, mempool>>
    /\ UNCHANGED outsideCallers

\* GetNextNonce: PendingNonceAt succeeds (nonce.go:39).
WorkerQueryOk(k) ==
    /\ wpc[k] = "query"
    /\ pendingNonce' = remote
    /\ wpc' = [wpc EXCEPT ![k] = "finish"]
    /\ UNCHANGED <<nmVars, pc, op, queries, calls, histVars, cfgVars, mainPc,
                   wi, wnonce, wpending, mempool>>
    /\ UNCHANGED outsideCallers

\* GetNextNonce: PendingNonceAt fails, the worker returns the error
\* (nonce.go:40-42, sender.go:104-107, config.go:309-312).
WorkerQueryErr(k) ==
    /\ wpc[k] = "query"
    /\ mu' = 0
    /\ queryFailed' = TRUE
    /\ wpc' = [wpc EXCEPT ![k] = "failed"]
    /\ UNCHANGED <<nm, remote, callerVars, lastOp, returned, r0, remoteMoved,
                   cfgVars, mainPc, wi, wnonce, wpending, mempool>>
    /\ UNCHANGED outsideCallers

\* GetNextNonce hands the worker its nonce (nonce.go:45-55).
WorkerGetNextNonceReturn(k) ==
    /\ wpc[k] = "finish"
    /\ wnonce' = [wnonce EXCEPT ![k] = GetNextNonceValue(nm, pendingNonce)]
    /\ returned' = Append(returned, GetNextNonceValue(nm, pendingNonce))
    /\ nm' = GetNextNonceFields(nm, pendingNonce)
    /\ mu' = 0
    /\ wpc' = [wpc EXCEPT ![k] = "build"]
    /\ UNCHANGED <<remote, callerVars, lastOp, r0, remoteMoved, queryFailed,
                   cfgVars, mainPc, wi, wpending, mempool>>
    /\ UNCHANGED outsideCallers

\* SuggestGasPrice and SignTx succeed (sender.go:109-126, config.go:314-336).
WorkerBuildOk(k) ==
    /\ wpc[k] = "build"
    /\ wpc' = [wpc EXCEPT ![k] = "send"]
    /\ UNCHANGED <<nmVars, callerVars, histVars, cfgVars, mainPc, wi, wnonce,
                   wpending, mempool>>
    /\ UNCHANGED outsideCallers

\* SuggestGasPrice (after the deployer's retries) or SignTx fails: the worker
\* returns the error (sender.go:110-112, 124-126, config.go:327-336).
WorkerBuildErr(k) ==
    /\ wpc[k] = "build"
    /\ wpc' = [wpc EXCEPT ![k] = "failed"]
    /\ UNCHANGED <<nmVars, callerVars, histVars, cfgVars, mainPc, wi, wnonce,
                   wpending, mempool>>
    /\ UNCHANGED outsideCallers

\* SendTransaction: the node accepts the transaction (sender.go:128,
\* config.go:338).  A nonce the node already holds a transaction for, or one
\* below the account's count, is not accepted.
WorkerSendOk(k) ==
    /\ wpc[k] = "send"
    /\ wnonce[k] \notin mempool
    /\ wnonce[k] >= r0
    /\ mempool' = mempool \cup {wnonce[k]}
    /\ wpc' = [wpc EXCEPT ![k] = IF wi[k] < TxCount(k) - 1 THEN "pause" ELSE "next"]
    /\ UNCHANGED <<nmVars, callerVars, histVars, cfgVars, mainPc, wi, wnonce,
                   wpending>>
    /\ UNCHANGED outsideCallers

\* SendTransaction fails: the worker returns the error (sender.go:128-130,
\* config.go:338-340).
WorkerSendErr(k) ==
    /\ wpc[k] = "send"
    /\ wpc' = [wpc EXCEPT ![k] = "failed"]
    /\ UNCHANGED <<nmVars, callerVars, histVars, cfgVars, mainPc, wi, wnonce,
                   wpending, mempool>>
    /\ UNCHANGED outsideCallers

\* The transfer worker's wait for the receipt, or its fallback delay, ends
\* (sender.go:135-149); the deployer's time.Sleep ends (config.go:352-354).
WorkerPauseEnd(k) ==
    /\ wpc[k] = "pause"
    /\ k = Deploy => delaySeconds > 0
    /\ wpc' = [wpc EXCEPT ![k] = "next"]
    /\ UNCHANGED <<nmVars, callerVars, histVars, cfgVars, mainPc, wi, wnonce,
                   wpending, mempool>>
    /\ UNCHANGED outsideCallers

\* WaitForNonceUpdate, the tick that ends the polling: PendingNonceAt, read
\* without the lock, reports more than the expected nonce.  A tick whose query
\* fails or reports no more than the expected nonce changes nothing and the
\* loop ticks again (nonce.go:83-89).
WaitTick ==
    /\ wpc[Deploy] = "pause"
    /\ delaySeconds = 0
    /\ remote > wnonce[Deploy]
    /\ wpending' = remote
    /\ wpc' = [wpc EXCEPT ![Deploy] = "store"]
    /\ UNCHANGED <<nmVars, callerVars, histVars, cfgVars, mainPc, wi, wnonce,
                   mempool>>
    /\ UNCHANGED outsideCallers

\* WaitForNonceUpdate stores the value it read under the lock and returns
\* (nonce.go:89-94).
WaitStore ==
    /\ wpc[Deploy] = "store"
    /\ mu = 0
    /\ nm' = [nm EXCEPT !.currentNonce = wpending]
    /\ wpc' = [wpc EXCEPT ![Deploy] = "next"]
    /\ UNCHANGED <<mu, remote, callerVars, histVars, cfgVars, mainPc, wi,
                   wnonce, wpending, mempool>>
    /\ UNCHANGED outsideCallers

\* WaitForNonceUpdate reaches its deadline and returns nil (nonce.go:79, 97-98).
WaitTimeout ==
    /\ wpc[Deploy] = "pause"
    /\ delaySeconds = 0
    /\ wpc' = [wpc EXCEPT ![Deploy] = "next"]
    /\ UNCHANGED <<nmVars, callerVars, histVars, cfgVars, mainPc, wi, wnonce,
                   wpending, mempool>>
    /\ UNCHANGED outsideCallers

\* i++ (sender.go:97, config.go:306).
WorkerNext(k) ==
    /\ wpc[k] = "next"
    /\ wi' = [wi EXCEPT ![k] = @ + 1]
    /\ wpc' = [wpc EXCEPT ![k] = "loop"]
    /\ UNCHANGED <<nmVars, callerVars, histVars, cfgVars, mainPc, wnonce,
                   wpending, mempool>>
    /\ UNCHANGED outsideCallers

\* wg.Wait() returns once both workers have returned (parallel.go:223, 376).
MainJoin ==
    /\ mainPc = "wait"
    /\ \A k \in Workers : wpc[k] \in {"done", "failed"}
    /\ mainPc' = "done"
    /\ UNCHANGED <<nmVars, callerVars, histVars, cfgVars, wpc, wi, wnonce,
                   wpending, mempool>>
    /\ UNCHANGED outsideCallers

\* The node's pending count catches up with one more accepted transaction.
NodeObserve ==
    /\ remote \in mempool
    /\ remote' = remote + 1
    /\ remoteMoved' = TRUE
    /\ UNCHANGED <<nm, mu, callerVars, lastOp, returned, r0, queryFailed,
                   cfgVars, workerVars>>
    /\ UNCHANGED outsideCallers

WorkerStep(k) ==
    \/ WorkerLoop(k)
    \/ WorkerLock(k)
    \/ WorkerQueryOk(k)
    \/ WorkerQueryErr(k)
    \/ WorkerGetNextNonceReturn(k)
    \/ WorkerBuildOk(k)
    \/ WorkerBuildErr(k)
    \/ WorkerSendOk(k)
    \/ WorkerSendErr(k)
    \/ WorkerPauseEnd(k)
    \/ WorkerNext(k)

NextAll ==
    \/ MainResetOk
    \/ MainResetFail
    \/ \E k \in Workers : WorkerStep(k)
    \/ WaitTick
    \/ WaitStore
    \/ WaitTimeout
    \/ MainJoin
    \/ NodeObserve

SpecAll == InitAll /\ [][NextAll]_vars

\* C3: in 'all' and 'deploy' modes no nonce is handed to two transactions,
\* for every interleaving of the transfer and the deployment worker,
\* including DelaySeconds = 0 where the deployer calls WaitForNonceUpdate.
C3_NoNonceHandedTwice ==
    \A i \in 1..Len(returned) : \A j \in 1..Len(returned) :
        i # j => returned[i] # returned[j]

(***************************************************************************)
(* ParallelSender: one dispatch loop per wallet, the admission gate, the   *)
(* retrying send attempts and the detached verification probes.            *)
(***************************************************************************)
\* part_003:378-386 -- NewParallelSender replaces a zero setting by its default.
DefaultMaxConcurrentRequests == 2000
DefaultBalanceCheckInterval == 100
DefaultMaxRetries == 3

WithDefault(v, d) == IF v = 0 THEN d ELSE v

NewParallelSender(config) ==
    [config EXCEPT
        !.MaxConcurrentRequests = WithDefault(@, DefaultMaxConcurrentRequests),
        !.BalanceCheckInterval = WithDefault(@, DefaultBalanceCheckInterval),
        !.MaxRetries = WithDefault(@, DefaultMaxRetries)]

\* part_003:611 -- the error log keeps at most this many entries.
ErrorCap == 1000

\* An error log that keeps every error.
recordErrorUnlimited(log, e) == Append(log, e)

\* part_003:607-614
recordError(log, e) == IF Len(log) < ErrorCap THEN Append(log, e) ELSE log

\* A requirement that leaves the payment amount out.
MinRequiredFeeOnly(price) == price * cfg.GasLimit

\* minRequired (part_003:480-481, 498-499).
MinRequired(price) == price * cfg.GasLimit + cfg.Value

\* The comparison with the sign turned round.
HasBalanceBelow(bal, price) == bal < MinRequired(price)

\* balance.Cmp(minRequired) >= 0 (part_003:483, 507).
HasBalance(bal, price) == bal >= MinRequired(price)

\* No cached balance: w.lastBalance == nil.
Nil == -1

\* The send attempts in progress.
Attempts == BagToSet(attempts)

\* A send attempt when its goroutine starts: attempt := 0 (part_003:515).
\* subs counts the SendTransaction calls the attempt has made, nonces the
\* numbers GetNextNonce has returned to it.
NewAttempt(w) ==
    [w |-> w, attempt |-> 0, pc |-> "nonce", subs |-> 0, nonces |-> 0]

RECURSIVE SumOver(_, _)
SumOver(f, S) ==
    IF S = {} THEN 0
    ELSE LET x == CHOOSE y \in S : TRUE IN f[x] + SumOver(f, S \ {x})

\* Attempts started so far by all loops.
DispatchedTotal == SumOver(dispatched, wallets)

\* No NonceManager caller and no transfer / deployment worker exists.
NoCallers ==
    /\ nm = NewNonceManager
    /\ mu = 0
    /\ remote = 0
    /\ pc = <<>>
    /\ op = <<>>
    /\ pendingNonce = 0
    /\ queries = 0
    /\ calls = 0
    /\ lastOp = "none"
    /\ returned = <<>>
    /\ r0 = 0
    /\ remoteMoved = FALSE
    /\ queryFailed = FALSE
    /\ NoWorkers

\* The state when SendParallelTransactions has started the loops of the
\* wallets ws under configuration config (part_003:376-414).
StartParallel(ws, config, budget, bal, price) ==
    /\ NoCallers
    /\ NoSetup
    /\ NoBounded
    /\ wallets = ws
    /\ psPc = "running"
    /\ cfg = NewParallelSender(config)
    /\ maxDispatch = budget
    /\ cancelled = FALSE
    /\ semaphore = 0
    /\ attempts = EmptyBag
    /\ loopPc = [w \in ws |-> "top"]
    /\ balanceCheckCounter = [w \in ws |-> 0]
    /\ chkBalance = [w \in ws |-> 0]
    /\ lastBalance = [w \in ws |-> Nil]
    /\ cacheFresh = [w \in ws |-> FALSE]
    /\ walletNm = [w \in ws |-> NewNonceManager]
    /\ probeSleep = 0
    /\ probeCall = 0
    /\ totalSent = 0
    /\ totalFailed = 0
    /\ totalSucceeded = 0
    /\ errors = <<>>
    /\ dispatched = [w \in ws |-> 0]
    /\ iterations = [w \in ws |-> 0]
    /\ endReason = [w \in ws |-> "running"]
    /\ balance = bal
    /\ gasPriceNow = price
    /\ initBalance = bal
    /\ sinceCheck = [w \in ws |-> Nil]
    /\ lateDispatched = [w \in ws |-> 0]

\* Wallets are listed by rising balance.
InitParallel ==
    \E config \in ConfigChoices, price \in GasPrices,
       bal \in [1..NumWallets -> BalanceChoices] :
        /\ \A v \in 1..NumWallets, w \in 1..NumWallets : v < w => bal[v] <= bal[w]
        /\ StartParallel(1..NumWallets, config, MaxDispatch, bal, price)

\* ---- the dispatch loop of wallet w (part_003:417-456)

\* A loop that looks at the context at the head of an iteration only.
LoopCancelledAtTopOnly(w) ==
    /\ loopPc[w] = "top"
    /\ cancelled
    /\ loopPc' = [loopPc EXCEPT ![w] = "done"]
    /\ endReason' = [endReason EXCEPT ![w] = "cancelled"]
    /\ UNCHANGED <<outsideEngine, engineCfg, cancelled, gateVars,
                   balanceCheckCounter, chkBalance, lastBalance, cacheFresh, nodeVars,
                   walletNm, probeVars, metricVars, dispatched, iterations,
                   initBalance, sinceCheck,
                   lateDispatched>>

\* case <-ctx.Done(): return, at the head of an iteration or in the select
\* on the gate (part_003:419-421, 446-447).
LoopCancelled(w) ==
    /\ loopPc[w] \in {"top", "gate"}
    /\ cancelled
    /\ loopPc' = [loopPc EXCEPT ![w] = "done"]
    /\ endReason' = [endReason EXCEPT ![w] = "cancelled"]
    /\ UNCHANGED <<outsideEngine, engineCfg, cancelled, gateVars,
                   balanceCheckCounter, chkBalance, lastBalance, cacheFresh, nodeVars,
                   walletNm, probeVars, metricVars, dispatched, iterations,
                   initBalance, sinceCheck,
                   lateDispatched>>

\* What time.Since(w.lastBalanceTime) < time.Second can give when the loop of
\* w begins an iteration, with a balance check or without: with nothing
\* cached the time is the zero time, which is more than a second ago
\* (part_003:470).
SinceChoices(w, check) ==
    IF check /\ lastBalance[w] # Nil THEN BOOLEAN ELSE {FALSE}

\* A loop that tests its counter before incrementing it, so that its first
\* iteration makes a balance check.
LoopTickChecksFirst(w) ==
    /\ loopPc[w] = "top"
    /\ ~cancelled
    /\ LET n == (balanceCheckCounter[w] + 1) % cfg.BalanceCheckInterval
           check == n = 1
       IN  /\ balanceCheckCounter' = [balanceCheckCounter EXCEPT ![w] = n]
           /\ loopPc' = [loopPc EXCEPT ![w] = IF check THEN "check" ELSE "gate"]
           /\ sinceCheck' = [sinceCheck EXCEPT
                  ![w] = IF check /\ cfg.BalanceCheckInterval <= CountedInterval
                         THEN 0 ELSE @]
           /\ \E fresh \in SinceChoices(w, check) :
                  cacheFresh' = [cacheFresh EXCEPT ![w] = fresh]
    /\ iterations' = [iterations EXCEPT
                         ![w] = IF @ <= cfg.BalanceCheckInterval THEN @ + 1 ELSE @]
    /\ UNCHANGED <<outsideEngine, engineCfg, cancelled, gateVars, chkBalance,
                   lastBalance, nodeVars, walletNm, probeVars, metricVars,
                   dispatched, endReason, initBalance, lateDispatched>>

\* An iteration that begins without a look at the context.
LoopTickIgnoresCancel(w) ==
    /\ loopPc[w] = "top"
    /\ LET n == (balanceCheckCounter[w] + 1) % cfg.BalanceCheckInterval
           check == n = 0
       IN  /\ balanceCheckCounter' = [balanceCheckCounter EXCEPT ![w] = n]
           /\ loopPc' = [loopPc EXCEPT ![w] = IF check THEN "check" ELSE "gate"]
           /\ sinceCheck' = [sinceCheck EXCEPT
                  ![w] = IF check /\ cfg.BalanceCheckInterval <= CountedInterval
                         THEN 0 ELSE @]
           /\ \E fresh \in SinceChoices(w, check) :
                  cacheFresh' = [cacheFresh EXCEPT ![w] = fresh]
    /\ iterations' = [iterations EXCEPT
                         ![w] = IF @ <= cfg.BalanceCheckInterval THEN @ + 1 ELSE @]
    /\ UNCHANGED <<outsideEngine, engineCfg, cancelled, gateVars, chkBalance,
                   lastBalance, nodeVars, walletNm, probeVars, metricVars,
                   dispatched, endReason, initBalance, lateDispatched>>

\* balanceCheckCounter++ and the test of the interval (part_003:426-427).
\* The counter is kept modulo the interval, which is all the code reads of it.
LoopTick(w) ==
    /\ loopPc[w] = "top"
    /\ ~cancelled
    /\ LET n == (balanceCheckCounter[w] + 1) % cfg.BalanceCheckInterval
           check == n = 0
       IN  /\ balanceCheckCounter' = [balanceCheckCounter EXCEPT ![w] = n]
           /\ loopPc' = [loopPc EXCEPT ![w] = IF check THEN "check" ELSE "gate"]
           /\ sinceCheck' = [sinceCheck EXCEPT
                  ![w] = IF check /\ cfg.BalanceCheckInterval <= CountedInterval
                         THEN 0 ELSE @]
           /\ \E fresh \in SinceChoices(w, check) :
                  cacheFresh' = [cacheFresh EXCEPT ![w] = fresh]
    /\ iterations' = [iterations EXCEPT
                         ![w] = IF @ <= cfg.BalanceCheckInterval THEN @ + 1 ELSE @]
    /\ UNCHANGED <<outsideEngine, engineCfg, cancelled, gateVars, chkBalance,
                   lastBalance, nodeVars, walletNm, probeVars, metricVars,
                   dispatched, endReason, initBalance, lateDispatched>>

\* A check that uses a cached balance whatever its age.
CheckCacheHitAnyAge(w) ==
    /\ loopPc[w] = "check"
    /\ lastBalance[w] # Nil
    /\ chkBalance' = [chkBalance EXCEPT ![w] = lastBalance[w]]
    /\ cacheFresh' = [cacheFresh EXCEPT ![w] = FALSE]
    /\ loopPc' = [loopPc EXCEPT ![w] = "gasCached"]
    /\ UNCHANGED <<outsideEngine, engineCfg, cancelled, gateVars,
                   balanceCheckCounter, lastBalance, nodeVars, walletNm,
                   probeVars, metricVars, histEngine>>

\* checkWalletBalance: a balance is cached and less than a second old, so it
\* is used (part_003:470-473).
CheckCacheHit(w) ==
    /\ loopPc[w] = "check"
    /\ lastBalance[w] # Nil
    /\ cacheFresh[w]
    /\ chkBalance' = [chkBalance EXCEPT ![w] = lastBalance[w]]
    /\ cacheFresh' = [cacheFresh EXCEPT ![w] = FALSE]
    /\ loopPc' = [loopPc EXCEPT ![w] = "gasCached"]
    /\ UNCHANGED <<outsideEngine, engineCfg, cancelled, gateVars,
                   balanceCheckCounter, lastBalance, nodeVars, walletNm,
                   probeVars, metricVars, histEngine>>

\* checkWalletBalance: nothing is cached or the cache has expired, and
\* BalanceAt succeeds (part_003:485-488).
BalanceAtOk(w) ==
    /\ loopPc[w] = "check"
    /\ ~(lastBalance[w] # Nil /\ cacheFresh[w])
    /\ chkBalance' = [chkBalance EXCEPT ![w] = balance[w]]
    /\ loopPc' = [loopPc EXCEPT ![w] = "gasFetched"]
    /\ UNCHANGED <<outsideEngine, engineCfg, cancelled, gateVars,
                   balanceCheckCounter, lastBalance, cacheFresh, nodeVars, walletNm,
                   probeVars, metricVars, histEngine>>

\* A failed BalanceAt that ends every loop, not only the one that asked.
BalanceAtErrEndsAll(w) ==
    /\ loopPc[w] = "check"
    /\ ~(lastBalance[w] # Nil /\ cacheFresh[w])
    /\ errors' = recordError(errors, <<w, "balance">>)
    /\ loopPc' = [v \in wallets |-> "done"]
    /\ endReason' = [endReason EXCEPT ![w] = "error"]
    /\ UNCHANGED <<outsideEngine, engineCfg, cancelled, gateVars,
                   balanceCheckCounter, chkBalance, lastBalance, cacheFresh, nodeVars,
                   walletNm, probeVars, totalSent, totalFailed, totalSucceeded,
                   dispatched, iterations, initBalance, sinceCheck,
                   lateDispatched>>

\* checkWalletBalance: BalanceAt fails; the loop records the error and returns
\* (part_003:488-491, 429-432).
BalanceAtErr(w) ==
    /\ loopPc[w] = "check"
    /\ ~(lastBalance[w] # Nil /\ cacheFresh[w])
    /\ errors' = recordError(errors, <<w, "balance">>)
    /\ loopPc' = [loopPc EXCEPT ![w] = "done"]
    /\ endReason' = [endReason EXCEPT ![w] = "error"]
    /\ UNCHANGED <<outsideEngine, engineCfg, cancelled, gateVars,
                   balanceCheckCounter, chkBalance, lastBalance, cacheFresh, nodeVars,
                   walletNm, probeVars, totalSent, totalFailed, totalSucceeded,
                   dispatched, iterations, initBalance, sinceCheck,
                   lateDispatched>>

\* checkWalletBalance: SuggestGasPrice succeeds, a fetched balance is cached,
\* and the loop continues or returns (part_003:475-483, 493-507, 433-435).
CheckGasPriceOk(w) ==
    /\ loopPc[w] \in {"gasCached", "gasFetched"}
    /\ lastBalance' = IF loopPc[w] = "gasFetched"
                      THEN [lastBalance EXCEPT ![w] = chkBalance[w]]
                      ELSE lastBalance
    /\ chkBalance' = [chkBalance EXCEPT ![w] = 0]
    /\ IF HasBalance(chkBalance[w], gasPriceNow)
       THEN /\ loopPc' = [loopPc EXCEPT ![w] = "gate"]
            /\ UNCHANGED endReason
       ELSE /\ loopPc' = [loopPc EXCEPT ![w] = "done"]
            /\ endReason' = [endReason EXCEPT ![w] = "insufficient"]
    /\ UNCHANGED <<outsideEngine, engineCfg, cancelled, gateVars,
                   balanceCheckCounter, cacheFresh, nodeVars, walletNm,
                   probeVars, metricVars, dispatched, iterations, initBalance,
                   sinceCheck, lateDispatched>>

\* checkWalletBalance: SuggestGasPrice fails; the loop records the error and
\* returns (part_003:476-478, 494-496, 429-432).
CheckGasPriceErr(w) ==
    /\ loopPc[w] \in {"gasCached", "gasFetched"}
    /\ errors' = recordError(errors, <<w, "balance">>)
    /\ chkBalance' = [chkBalance EXCEPT ![w] = 0]
    /\ loopPc' = [loopPc EXCEPT ![w] = "done"]
    /\ endReason' = [endReason EXCEPT ![w] = "error"]
    /\ UNCHANGED <<outsideEngine, engineCfg, cancelled, gateVars,
                   balanceCheckCounter, lastBalance, cacheFresh, nodeVars, walletNm,
                   probeVars, totalSent, totalFailed, totalSucceeded,
                   dispatched, iterations, initBalance, sinceCheck,
                   lateDispatched>>

\* The gate admits one attempt more than its capacity.
GateOpenOffByOne == semaphore <= cfg.MaxConcurrentRequests

\* semaphore <- struct{}{} can proceed: the channel is not full
\* (part_003:405, 440).
GateOpen == semaphore < cfg.MaxConcurrentRequests

\* case semaphore <- struct{}{}: the attempt is started in its own goroutine
\* (part_003:440-445).  The model dispatches at most maxDispatch attempts.
LoopDispatch(w) ==
    /\ loopPc[w] = "gate"
    /\ GateOpen
    /\ DispatchedTotal < maxDispatch
    /\ semaphore' = semaphore + 1
    /\ attempts' = attempts (+) SetToBag({NewAttempt(w)})
    /\ dispatched' = [dispatched EXCEPT ![w] = @ + 1]
    /\ loopPc' = [loopPc EXCEPT ![w] = "top"]
    /\ UNCHANGED <<outsideEngine, engineCfg, cancelled, balanceCheckCounter,
                   chkBalance, lastBalance, cacheFresh, nodeVars, walletNm, probeVars,
                   metricVars, iterations, endReason, initBalance>>
    /\ sinceCheck' = [sinceCheck EXCEPT ![w] = IF @ = Nil THEN Nil ELSE @ + 1]
    /\ lateDispatched' = [lateDispatched EXCEPT ![w] = IF cancelled THEN @ + 1 ELSE @]

\* What the loop does at a full gate under configuration config: it waits
\* for 10ms or the end of the context, whatever the configuration
\* (part_003:448-454 read no field of ps.config).
GatePolicy(config) == "wait"

\* default: the gate is full and the context is live; the loop pauses for
\* 10ms and starts its next iteration, where a cancellation during the pause
\* is seen (part_003:448-454, 419-421).
LoopGateFull(w) ==
    /\ loopPc[w] = "gate"
    /\ ~GateOpen
    /\ ~cancelled
    /\ loopPc' = [loopPc EXCEPT ![w] = "top"]
    /\ UNCHANGED <<outsideEngine, engineCfg, cancelled, gateVars,
                   balanceCheckCounter, chkBalance, lastBalance, cacheFresh, nodeVars,
                   walletNm, probeVars, metricVars, histEngine>>

LoopStep(w) ==
    \/ LoopTick(w)
    \/ CheckCacheHit(w)
    \/ BalanceAtOk(w)
    \/ BalanceAtErr(w)
    \/ CheckGasPriceOk(w)
    \/ CheckGasPriceErr(w)
    \/ LoopDispatch(w)
    \/ LoopGateFull(w)

\* ---- one send attempt a, holding a slot of the gate (part_003:511-587)

\* An attempt that ends and keeps its slot.
ReleaseKeepsSlot(a) ==
    /\ attempts' = attempts (-) SetToBag({a})
    /\ UNCHANGED semaphore

\* defer func() { <-semaphore }() (part_003:443): the attempt leaves the gate.
Release(a) ==
    /\ semaphore' = semaphore - 1
    /\ attempts' = attempts (-) SetToBag({a})

\* The attempt goes on, as b.
Continue(a, b) ==
    /\ attempts' = (attempts (-) SetToBag({a})) (+) SetToBag({b})
    /\ UNCHANGED semaphore

\* The retry test with the bound off by one.
MayRetryOffByOne(a) == a.attempt <= cfg.MaxRetries

\* attempt < ps.config.MaxRetries (part_003:536, 568).  With MaxRetries >= 0
\* the try with attempt = MaxRetries returns on every path, so the loop
\* never ends by its condition and part_003:584-586 is not reached.
MayRetry(a) == a.attempt < cfg.MaxRetries

\* A next try that keeps the number of the failed one and goes on with the
\* fee query.
NextTryKeepsNonce(a, subs) ==
    [a EXCEPT !.attempt = @ + 1, !.pc = "gas", !.subs = subs]

\* The next try of the loop, after the pause: attempt++ (part_003:515,
\* 537-538, 570-571).
NextTry(a, subs) == [a EXCEPT !.attempt = @ + 1, !.pc = "nonce", !.subs = subs]

\* A return at the cancellation check that is counted as a failure.
AttemptCancelledCountsFailure(a) ==
    /\ a.pc = "nonce"
    /\ cancelled
    /\ Release(a)
    /\ totalFailed' = totalFailed + 1
    /\ UNCHANGED <<outsideEngine, engineCfg, cancelled, loopVars, lastBalance,
                   cacheFresh, nodeVars, walletNm, probeVars, totalSent,
                   totalSucceeded, errors, histEngine>>

\* case <-ctx.Done(): return, at the head of a try (part_003:517-521).
AttemptCancelled(a) ==
    /\ a.pc = "nonce"
    /\ cancelled
    /\ Release(a)
    /\ UNCHANGED <<outsideEngine, engineCfg, cancelled, loopVars, lastBalance, cacheFresh,
                   nodeVars, walletNm, probeVars, metricVars, histEngine>>

\* A failed GetNextNonce that also ends the loop of the attempt's wallet.
AttemptNonceErrEndsLoop(a) ==
    /\ a.pc = "nonce"
    /\ errors' = recordError(errors, <<a.w, "nonce">>)
    /\ totalFailed' = totalFailed + 1
    /\ Release(a)
    /\ loopPc' = [loopPc EXCEPT ![a.w] = "done"]
    /\ UNCHANGED <<outsideEngine, engineCfg, cancelled, balanceCheckCounter,
                   chkBalance, lastBalance, cacheFresh, nodeVars, walletNm, probeVars,
                   totalSent, totalSucceeded, histEngine>>

\* GetNextNonce fails: the attempt ends at once (part_003:524-530).
AttemptNonceErr(a) ==
    /\ a.pc = "nonce"
    /\ errors' = recordError(errors, <<a.w, "nonce">>)
    /\ totalFailed' = totalFailed + 1
    /\ Release(a)
    /\ UNCHANGED <<outsideEngine, engineCfg, cancelled, loopVars, lastBalance, cacheFresh,
                   nodeVars, walletNm, probeVars, totalSent, totalSucceeded,
                   histEngine>>

\* Pending counts the node may report for wallet w, whose only sender is this
\* run: it has seen none, or all, of the nonces handed out so far.
PendingChoices(w) == {0, walletNm[w].currentNonce}

\* GetNextNonce succeeds (part_003:524, nonce.go:33-56).
AttemptNonceOk(a) ==
    /\ a.pc = "nonce"
    /\ \E pending \in PendingChoices(a.w) :
           walletNm' = [walletNm EXCEPT ![a.w] = GetNextNonceFields(@, pending)]
    /\ Continue(a, [a EXCEPT !.pc = "gas", !.nonces = @ + 1])
    /\ UNCHANGED <<outsideEngine, engineCfg, cancelled, loopVars, lastBalance, cacheFresh,
                   nodeVars, probeVars, metricVars, histEngine>>

\* SuggestGasPrice fails: retry, or fail after the last try (part_003:533-543).
AttemptGasPriceErr(a) ==
    /\ a.pc = "gas"
    /\ IF MayRetry(a)
       THEN /\ Continue(a, NextTry(a, a.subs))
            /\ UNCHANGED metricVars
       ELSE /\ errors' = recordError(errors, <<a.w, "gas">>)
            /\ totalFailed' = totalFailed + 1
            /\ Release(a)
            /\ UNCHANGED <<totalSent, totalSucceeded>>
    /\ UNCHANGED <<outsideEngine, engineCfg, cancelled, loopVars, lastBalance, cacheFresh,
                   nodeVars, walletNm, probeVars, histEngine>>

\* SuggestGasPrice and SignTx succeed; SendTransaction is next
\* (part_003:533, 546-565).
AttemptGasPriceOk(a) ==
    /\ a.pc = "gas"
    /\ Continue(a, [a EXCEPT !.pc = "send"])
    /\ UNCHANGED <<outsideEngine, engineCfg, cancelled, loopVars, lastBalance, cacheFresh,
                   nodeVars, walletNm, probeVars, metricVars, histEngine>>

\* A failed SignTx that is retried like a failed SuggestGasPrice.
AttemptSignErrRetries(a) ==
    /\ a.pc = "gas"
    /\ IF MayRetry(a)
       THEN /\ Continue(a, NextTry(a, a.subs))
            /\ UNCHANGED metricVars
       ELSE /\ errors' = recordError(errors, <<a.w, "sign">>)
            /\ totalFailed' = totalFailed + 1
            /\ Release(a)
            /\ UNCHANGED <<totalSent, totalSucceeded>>
    /\ UNCHANGED <<outsideEngine, engineCfg, cancelled, loopVars, lastBalance, cacheFresh,
                   nodeVars, walletNm, probeVars, histEngine>>

\* SignTx fails: the attempt ends at once (part_003:556-562).
AttemptSignErr(a) ==
    /\ a.pc = "gas"
    /\ errors' = recordError(errors, <<a.w, "sign">>)
    /\ totalFailed' = totalFailed + 1
    /\ Release(a)
    /\ UNCHANGED <<outsideEngine, engineCfg, cancelled, loopVars, lastBalance, cacheFresh,
                   nodeVars, walletNm, probeVars, totalSent, totalSucceeded,
                   histEngine>>

\* SendTransaction fails: retry, or fail after the last try (part_003:565-576).
AttemptSendErr(a) ==
    /\ a.pc = "send"
    /\ IF MayRetry(a)
       THEN /\ Continue(a, NextTry(a, a.subs + 1))
            /\ UNCHANGED metricVars
       ELSE /\ errors' = recordError(errors, <<a.w, "send">>)
            /\ totalFailed' = totalFailed + 1
            /\ Release(a)
            /\ UNCHANGED <<totalSent, totalSucceeded>>
    /\ UNCHANGED <<outsideEngine, engineCfg, cancelled, loopVars, lastBalance, cacheFresh,
                   nodeVars, walletNm, probeVars, histEngine>>

\* SendTransaction succeeds: totalSent++, the verification probe is started,
\* and the attempt returns (part_003:565, 578-581).  The node accepts a
\* transaction the balance covers, and charges the wallet for it.
AttemptSendOk(a) ==
    /\ a.pc = "send"
    /\ balance[a.w] >= MinRequired(gasPriceNow)
    /\ balance' = [balance EXCEPT ![a.w] = @ - MinRequired(gasPriceNow)]
    /\ totalSent' = totalSent + 1
    /\ probeSleep' = probeSleep + 1
    /\ Release(a)
    /\ UNCHANGED <<outsideEngine, engineCfg, cancelled, loopVars, lastBalance, cacheFresh,
                   gasPriceNow, walletNm, probeCall, totalFailed,
                   totalSucceeded, errors, histEngine>>

AttemptStep(a) ==
    \/ AttemptNonceErr(a)
    \/ AttemptNonceOk(a)
    \/ AttemptGasPriceErr(a)
    \/ AttemptGasPriceOk(a)
    \/ AttemptSignErr(a)
    \/ AttemptSendErr(a)
    \/ AttemptSendOk(a)

\* ---- verifyTransaction, outside the gate (part_003:590-604)

\* time.Sleep(500 * time.Millisecond) ends; TransactionByHash is called.
ProbeWake ==
    /\ probeSleep > 0
    /\ probeSleep' = probeSleep - 1
    /\ probeCall' = probeCall + 1
    /\ UNCHANGED <<outsideEngine, engineCfg, cancelled, gateVars, loopVars,
                   lastBalance, cacheFresh, nodeVars, walletNm, metricVars, histEngine>>

\* TransactionByHash answers, pending or mined: totalSucceeded++.
ProbeOk ==
    /\ probeCall > 0
    /\ probeCall' = probeCall - 1
    /\ totalSucceeded' = totalSucceeded + 1
    /\ UNCHANGED <<outsideEngine, engineCfg, cancelled, gateVars, loopVars,
                   lastBalance, cacheFresh, nodeVars, walletNm, probeSleep, totalSent,
                   totalFailed, errors, histEngine>>

\* A failed TransactionByHash that is counted as a failed transaction.
ProbeErrCountsFailure ==
    /\ probeCall > 0
    /\ probeCall' = probeCall - 1
    /\ totalFailed' = totalFailed + 1
    /\ UNCHANGED <<outsideEngine, engineCfg, cancelled, gateVars, loopVars,
                   lastBalance, cacheFresh, nodeVars, walletNm, probeSleep, totalSent,
                   totalSucceeded, errors, histEngine>>

\* TransactionByHash fails: nothing is counted.
ProbeErr ==
    /\ probeCall > 0
    /\ probeCall' = probeCall - 1
    /\ UNCHANGED <<outsideEngine, engineCfg, cancelled, gateVars, loopVars,
                   lastBalance, cacheFresh, nodeVars, walletNm, probeSleep, metricVars,
                   histEngine>>

\* printSummary slices errors[len(errors)-10:] also when the log holds fewer
\* than 10 entries, where the lower bound is negative (part_003:632-634).
SummaryPanics == 0 < Len(errors) /\ Len(errors) < 10

\* A join that waits for the first loop to return only.
JoinAnyLoop ==
    /\ psPc = "running"
    /\ \E w \in wallets : loopPc[w] = "done"
    /\ psPc' = IF SummaryPanics THEN "panicked" ELSE "returned"
    /\ UNCHANGED <<outsideEngine, wallets, cfg, maxDispatch, cancelled, gateVars,
                   loopVars, lastBalance, cacheFresh, nodeVars, walletNm, probeVars,
                   metricVars, histEngine>>

\* wg.Wait() returns once every loop has returned; the summary is printed
\* and SendParallelTransactions returns, or printSummary panics
\* (part_003:460-464, 626-644).  Attempts and probes still running are not
\* waited for.
Join ==
    /\ psPc = "running"
    /\ \A w \in wallets : loopPc[w] = "done"
    /\ psPc' = IF SummaryPanics THEN "panicked" ELSE "returned"
    /\ UNCHANGED <<outsideEngine, wallets, cfg, maxDispatch, cancelled, gateVars,
                   loopVars, lastBalance, cacheFresh, nodeVars, walletNm, probeVars,
                   metricVars, histEngine>>

\* The run as the simulator starts it, on context.Background()
\* (parallel.go:20): the context is never cancelled.
NextParallel ==
    \/ \E w \in wallets : LoopStep(w)
    \/ \E a \in Attempts : AttemptStep(a)
    \/ ProbeWake
    \/ ProbeOk
    \/ ProbeErr
    \/ Join

SpecParallel == InitParallel /\ [][NextParallel]_vars

\* ---- a caller that may cancel the context

\* The caller cancels the context.
Cancel ==
    /\ psPc = "running"
    /\ ~cancelled
    /\ cancelled' = TRUE
    /\ UNCHANGED <<outsideEngine, engineCfg, gateVars, loopVars, lastBalance, cacheFresh,
                   nodeVars, walletNm, probeVars, metricVars, histEngine>>

NextCancel ==
    \/ NextParallel
    \/ Cancel
    \/ \E w \in wallets : LoopCancelled(w)
    \/ \E a \in Attempts : AttemptCancelled(a)

\* The cancellable run is explored for one configuration with a gate of one
\* slot, at the lowest fee.
InitCancel ==
    \E config \in CancelConfigChoices, bal \in [1..NumWallets -> BalanceChoices] :
        /\ \A v \in 1..NumWallets, w \in 1..NumWallets : v < w => bal[v] <= bal[w]
        /\ StartParallel(1..NumWallets, config, MaxDispatch, bal, MinGasPrice)

SpecCancel == InitCancel /\ [][NextCancel]_vars

\* ---- the cancellable run under fair scheduling of the loops

\* Each loop goroutine and the coordinator are scheduled while they can take
\* a step; nothing is assumed of the attempts and the probes.
FairLoops ==
    /\ \A w \in 1..NumWallets : WF_vars(LoopStep(w) \/ LoopCancelled(w))
    /\ WF_vars(Join)

\* The fair run is explored with funded wallets and a budget of one dispatch,
\* which is enough to fill the gate of one slot.
InitCancelFair ==
    \E config \in CancelConfigChoices :
        StartParallel(1..NumWallets, config, FairDispatch,
                      [w \in 1..NumWallets |-> SustainedBalance], MinGasPrice)

SpecCancelFair == InitCancelFair /\ [][NextCancel]_vars /\ FairLoops

\* ---- a cancellable run against a node that rejects every submission, long
\* ---- enough for the summary to be printed with ten errors logged

InitJoin ==
    StartParallel(1..NumWallets, JoinConfig, JoinDispatch,
                  [w \in 1..NumWallets |->
                      IF w = 1 THEN MinRequired(MinGasPrice) - 1
                               ELSE SustainedBalance],
                  MinGasPrice)

NextJoin ==
    \/ \E w \in wallets : \/ LoopTick(w)
                          \/ CheckCacheHit(w)
                          \/ BalanceAtOk(w)
                          \/ BalanceAtErr(w)
                          \/ CheckGasPriceOk(w)
                          \/ LoopDispatch(w)
                          \/ LoopGateFull(w)
                          \/ LoopCancelled(w)
    \/ \E a \in Attempts : \/ AttemptNonceOk(a)
                           \/ AttemptGasPriceOk(a)
                           \/ AttemptSendErr(a)
                           \/ AttemptCancelled(a)
    \/ Cancel
    \/ Join

SpecJoin == InitJoin /\ [][NextJoin]_vars

\* ---- a run of one wallet whose balance is at the requirement or next to it

\* Balances one below, at and one above fee * gasLimit + value, for each fee
\* the node quotes and the settings of CancelConfigChoices.
ThresholdBalances ==
    {p * c.GasLimit + c.Value + d :
        p \in GasPrices, c \in CancelConfigChoices, d \in {-1, 0, 1}}

InitThreshold ==
    \E config \in CancelConfigChoices, price \in GasPrices,
       b \in ThresholdBalances :
        StartParallel({1}, config, MaxDispatch, [w \in {1} |-> b], price)

SpecThreshold == InitThreshold /\ [][NextParallel]_vars

\* ---- a long run of one wallet against a node that rejects every submission

InitSustained ==
    \E config \in SustainedConfigChoices :
        StartParallel({1}, config, SustainedDispatch,
                      [w \in {1} |-> SustainedBalance], MinGasPrice)

NextSustained ==
    \/ \E w \in wallets : \/ LoopTick(w)
                          \/ CheckCacheHit(w)
                          \/ BalanceAtOk(w)
                          \/ CheckGasPriceOk(w)
                          \/ LoopDispatch(w)
                          \/ LoopGateFull(w)
    \/ \E a \in Attempts : \/ AttemptNonceOk(a)
                           \/ AttemptGasPriceOk(a)
                           \/ AttemptSendErr(a)

SpecSustained == InitSustained /\ [][NextSustained]_vars

\* ---- the long run with a nonce query that fails once the error log is full

\* GetNextNonce fails when the log holds ErrorCap errors already.
AttemptNonceErrAtFullLog(a) == Len(errors) = ErrorCap /\ AttemptNonceErr(a)

NextOverflow ==
    \/ \E w \in wallets : \/ LoopTick(w)
                          \/ CheckCacheHit(w)
                          \/ BalanceAtOk(w)
                          \/ CheckGasPriceOk(w)
                          \/ LoopDispatch(w)
                          \/ LoopGateFull(w)
    \/ \E a \in Attempts : \/ AttemptNonceOk(a)
                           \/ AttemptGasPriceOk(a)
                           \/ AttemptSendErr(a)
                           \/ AttemptNonceErrAtFullLog(a)

SpecOverflow == InitSustained /\ [][NextOverflow]_vars

\* ---- the end-to-end scenario: the node accepts every transfer the balance
\* ---- covers and rejects the others

InitScenario ==
    StartParallel({1}, ScenarioConfig, ScenarioDispatch,
                  [w \in {1} |-> ScenarioBalance], MinGasPrice)

\* The node rejects a transfer the balance does not cover.
AttemptSendUnfunded(a) ==
    /\ balance[a.w] < MinRequired(gasPriceNow)
    /\ AttemptSendErr(a)

NextScenario ==
    \/ \E w \in wallets : \/ LoopTick(w)
                          \/ CheckCacheHit(w)
                          \/ BalanceAtOk(w)
                          \/ CheckGasPriceOk(w)
                          \/ LoopDispatch(w)
                          \/ LoopGateFull(w)
    \/ \E a \in Attempts : \/ AttemptNonceOk(a)
                           \/ AttemptGasPriceOk(a)
                           \/ AttemptSendOk(a)
                           \/ AttemptSendUnfunded(a)

SpecScenario == InitScenario /\ [][NextScenario]_vars

(***************************************************************************)
(* runParallel (cmd/simulator/parallel.go) and wallet.Manager (part_005):  *)
(* the balance test, the generation and funding of the fleet, and the      *)
(* start of the ParallelSender.  The funding goroutines are alike, so they *)
(* are counted by position rather than told apart.                         *)
(***************************************************************************)

\* FUNDING_AMOUNT's default and the gas limit of a funding transfer.
DefaultFundingAmount == 100
FundGasLimit == 21000

\* Validate's upper limits.
MaxWalletCount == 10000
MaxMaxConcurrentRequests == 10000
MaxFundingConcurrency == 1000

\* config.Validate, for the fields the parallel mode reads.
Validate(c) ==
    /\ c.WalletCount >= 0
    /\ c.WalletCount <= MaxWalletCount
    /\ c.MaxConcurrentRequests > 0
    /\ c.MaxConcurrentRequests <= MaxMaxConcurrentRequests
    /\ c.BalanceCheckInterval > 0
    /\ c.FundingConcurrency > 0
    /\ c.FundingConcurrency <= MaxFundingConcurrency

\* The configurations runParallel is started with.
AppConfigChoices ==
    {c \in {[Value |-> 1, GasLimit |-> 2, MinBalance |-> MinBalanceChoice,
             WalletCount |-> n, FundingAmount |-> DefaultFundingAmount,
             MaxConcurrentRequests |-> l.MaxConcurrentRequests,
             BalanceCheckInterval |-> l.BalanceCheckInterval,
             FundingConcurrency |-> l.FundingConcurrency] :
                n \in WalletCounts, l \in LimitChoices} : Validate(c)}

\* The capacity of FundWallets' semaphore.
FundingSlots == 50

\* What the source account pays for one funding transfer the node accepts.
FundingCost == appCfg.FundingAmount + FundGasLimit * MinGasPrice

\* runParallel after the configuration is parsed and the client is connected.
InitRunParallel ==
    /\ NoCallers
    /\ NoEngine
    /\ NoBounded
    /\ appCfg \in AppConfigChoices
    /\ rpPc = "checkBalance"
    /\ srcBalance \in {appCfg.MinBalance - 1, appCfg.MinBalance,
                       appCfg.MinBalance + 1}
    /\ hasBalance = FALSE
    /\ newWallets = 0
    /\ fundWaiting = 0
    /\ fundSemaphore = 0
    /\ fundSubmitted = 0
    /\ errChan = 0
    /\ fundErr = Nil

\* A balance test that a balance equal to the minimum passes.
CheckBalanceResultAtLeast(bal, minBalance) == bal >= minBalance

\* CheckBalance: balance.Cmp(minBalance) > 0 (part_005:128-134).
CheckBalanceResult(bal, minBalance) == bal > minBalance

\* CheckBalance succeeds (parallel.go:65).
CheckBalance ==
    /\ rpPc = "checkBalance"
    /\ hasBalance' = CheckBalanceResult(srcBalance, appCfg.MinBalance)
    /\ rpPc' = "wallets"
    /\ UNCHANGED <<callerSide, engineVars, boundedVars, appCfg, srcBalance, newWallets,
                   fundWaiting, fundSemaphore, fundSubmitted, errChan, fundErr>>

\* BalanceAt fails: runParallel exits (parallel.go:66-69).
CheckBalanceErr ==
    /\ rpPc = "checkBalance"
    /\ rpPc' = "exit"
    /\ UNCHANGED <<callerSide, engineVars, boundedVars, appCfg, srcBalance, hasBalance,
                   newWallets, fundWaiting, fundSemaphore, fundSubmitted,
                   errChan, fundErr>>

\* hasBalance: GenerateWallets(cfg.WalletCount), and FundWallets starts one
\* goroutine per generated wallet (parallel.go:81-83, part_005:65-72).
GenerateAndFund ==
    /\ rpPc = "wallets"
    /\ hasBalance
    /\ newWallets' = appCfg.WalletCount
    /\ fundWaiting' = appCfg.WalletCount
    /\ rpPc' = "funding"
    /\ UNCHANGED <<callerSide, engineVars, boundedVars, appCfg, srcBalance, hasBalance,
                   fundSemaphore, fundSubmitted, errChan, fundErr>>

\* !hasBalance: only the original wallet is used (parallel.go:79-85).
UseOriginalOnly ==
    /\ rpPc = "wallets"
    /\ ~hasBalance
    /\ rpPc' = "build"
    /\ UNCHANGED <<callerSide, engineVars, boundedVars, appCfg, srcBalance, hasBalance,
                   newWallets, fundWaiting, fundSemaphore, fundSubmitted,
                   errChan, fundErr>>

\* The semaphore with one slot more than it has.
FundSlotFreeOffByOne == fundSemaphore <= FundingSlots

\* semaphore <- struct{}{} can proceed (part_005:68, 74).
FundSlotFree == fundSemaphore < FundingSlots

\* A funding goroutine acquires a slot (part_005:74).
FundAcquire ==
    /\ rpPc = "funding"
    /\ fundWaiting > 0
    /\ FundSlotFree
    /\ fundWaiting' = fundWaiting - 1
    /\ fundSemaphore' = fundSemaphore + 1
    /\ UNCHANGED <<callerSide, engineVars, boundedVars, appCfg, rpPc, srcBalance,
                   hasBalance, newWallets, fundSubmitted, errChan, fundErr>>

\* GetNextNonce, SuggestGasPrice, SignTx and SendTransaction succeed: the
\* transfer is submitted, the slot released (part_005:75-108).
FundSendOk ==
    /\ rpPc = "funding"
    /\ fundSemaphore > 0
    /\ srcBalance >= FundingCost
    /\ srcBalance' = srcBalance - FundingCost
    /\ fundSubmitted' = fundSubmitted + 1
    /\ fundSemaphore' = fundSemaphore - 1
    /\ nm' = GetNextNonceFields(nm, remote)
    /\ UNCHANGED <<besidesNm, engineVars, boundedVars, appCfg, rpPc, hasBalance,
                   newWallets, fundWaiting, errChan, fundErr>>

\* An error channel without a buffer: no send proceeds before FundWallets
\* starts to receive.
ErrChanUnbuffered == FALSE

\* errChan <- err can proceed: the channel, made with room for len(wallets)
\* errors, is not full (part_005:67, 79, 85, 100, 105).  FundWallets receives
\* from it only after wg.Wait() (part_005:111-118).
ErrChanHasRoom == errChan < newWallets

\* A failed funding send after which the goroutines still waiting give up.
FundFailStops ==
    /\ rpPc = "funding"
    /\ fundSemaphore > 0
    /\ ErrChanHasRoom
    /\ errChan' = errChan + 1
    /\ fundSemaphore' = fundSemaphore - 1
    /\ fundWaiting' = 0
    /\ nm' = GetNextNonceFields(nm, remote)
    /\ UNCHANGED <<besidesNm, engineVars, boundedVars, appCfg, rpPc, srcBalance,
                   hasBalance, newWallets, fundSubmitted, fundErr>>

\* GetNextNonce has handed out a nonce and SuggestGasPrice, SignTx or
\* SendTransaction fails: the error is sent on errChan, which has room for
\* one error per goroutine, and the slot is released (part_005:67, 75-107).
FundFail ==
    /\ rpPc = "funding"
    /\ fundSemaphore > 0
    /\ ErrChanHasRoom
    /\ errChan' = errChan + 1
    /\ fundSemaphore' = fundSemaphore - 1
    /\ nm' = GetNextNonceFields(nm, remote)
    /\ UNCHANGED <<besidesNm, engineVars, boundedVars, appCfg, rpPc, srcBalance,
                   hasBalance, newWallets, fundWaiting, fundSubmitted, fundErr>>

\* GetNextNonce fails, leaving the NonceManager as it was: the error is sent
\* on errChan and the slot is released (part_005:75-81).
FundNonceErr ==
    /\ rpPc = "funding"
    /\ fundSemaphore > 0
    /\ ErrChanHasRoom
    /\ errChan' = errChan + 1
    /\ fundSemaphore' = fundSemaphore - 1
    /\ UNCHANGED <<callerSide, engineVars, boundedVars, appCfg, rpPc, srcBalance,
                   hasBalance, newWallets, fundWaiting, fundSubmitted, fundErr>>

\* A FundWallets whose error makes runParallel exit.
FundWalletsReturnsAborts ==
    /\ rpPc = "funding"
    /\ fundWaiting = 0
    /\ fundSemaphore = 0
    /\ fundErr' = IF errChan > 0 THEN errChan ELSE 0
    /\ rpPc' = IF errChan > 0 THEN "exit" ELSE "build"
    /\ UNCHANGED <<callerSide, engineVars, boundedVars, appCfg, srcBalance, hasBalance,
                   newWallets, fundWaiting, fundSemaphore, fundSubmitted,
                   errChan>>

\* wg.Wait() returns when every goroutine is done; the errors are counted
\* and FundWallets returns the count, or nil (part_005:111-124).  runParallel
\* ignores what it returns (parallel.go:83).
FundWalletsReturns ==
    /\ rpPc = "funding"
    /\ fundWaiting = 0
    /\ fundSemaphore = 0
    /\ fundErr' = IF errChan > 0 THEN errChan ELSE 0
    /\ rpPc' = "build"
    /\ UNCHANGED <<callerSide, engineVars, boundedVars, appCfg, srcBalance, hasBalance,
                   newWallets, fundWaiting, fundSemaphore, fundSubmitted,
                   errChan>>

\* The ParallelConfig runParallel builds: the limits are not among the fields
\* it sets (parallel.go:100-105).
ParallelConfigOf(c) ==
    [Value |-> c.Value, GasLimit |-> c.GasLimit, MaxConcurrentRequests |-> 0,
     BalanceCheckInterval |-> 0, MaxRetries |-> 0]

\* allWallets: the original wallet, then the generated ones
\* (parallel.go:71-79, 84).
AllWallets == 1..(1 + newWallets)

\* What BalanceAt reports when the sender starts: the generated wallets that
\* were funded hold the funding amount, the others nothing.
BalancesAfterFunding ==
    [w \in AllWallets |->
        IF w = 1 THEN srcBalance
        ELSE IF w - 1 <= fundSubmitted THEN appCfg.FundingAmount ELSE 0]

\* NewParallelSender and the start of SendParallelTransactions, with one
\* loop per wallet (parallel.go:89-108, part_003:376-414).  The
\* original wallet keeps the NonceManager the funding goroutines have used.
StartSending ==
    /\ rpPc = "build"
    /\ rpPc' = "sending"
    /\ wallets' = AllWallets
    /\ psPc' = "running"
    /\ cfg' = NewParallelSender(ParallelConfigOf(appCfg))
    /\ maxDispatch' = 0
    /\ cancelled' = FALSE
    /\ semaphore' = 0
    /\ attempts' = EmptyBag
    /\ loopPc' = [w \in AllWallets |-> "top"]
    /\ balanceCheckCounter' = [w \in AllWallets |-> 0]
    /\ chkBalance' = [w \in AllWallets |-> 0]
    /\ lastBalance' = [w \in AllWallets |-> Nil]
    /\ cacheFresh' = [w \in AllWallets |-> FALSE]
    /\ walletNm' = [w \in AllWallets |-> IF w = 1 THEN nm ELSE NewNonceManager]
    /\ probeSleep' = 0
    /\ probeCall' = 0
    /\ totalSent' = 0
    /\ totalFailed' = 0
    /\ totalSucceeded' = 0
    /\ errors' = <<>>
    /\ dispatched' = [w \in AllWallets |-> 0]
    /\ iterations' = [w \in AllWallets |-> 0]
    /\ endReason' = [w \in AllWallets |-> "running"]
    /\ balance' = BalancesAfterFunding
    /\ gasPriceNow' = MinGasPrice
    /\ initBalance' = BalancesAfterFunding
    /\ sinceCheck' = [w \in AllWallets |-> Nil]
    /\ lateDispatched' = [w \in AllWallets |-> 0]
    /\ UNCHANGED <<callerSide, boundedVars, appCfg, srcBalance, hasBalance,
                   newWallets, fundWaiting, fundSemaphore, fundSubmitted,
                   errChan, fundErr>>

NextRunParallel ==
    \/ CheckBalance
    \/ CheckBalanceErr
    \/ GenerateAndFund
    \/ UseOriginalOnly
    \/ FundAcquire
    \/ FundSendOk
    \/ FundFail
    \/ FundNonceErr
    \/ FundWalletsReturns
    \/ StartSending

SpecRunParallel == InitRunParallel /\ [][NextRunParallel]_vars

\* ---- FundWallets under fair scheduling

\* Each funding goroutine is scheduled while it can take a step, every
\* remote call it makes returns, with one outcome or another, and the
\* goroutine of FundWallets is scheduled once wg.Wait() can return.
FairFunding ==
    /\ WF_vars(FundAcquire)
    /\ WF_vars(FundSendOk \/ FundFail \/ FundNonceErr)
    /\ WF_vars(FundWalletsReturns)

\* The fair run is explored with the default limits.
InitFundFair ==
    /\ InitRunParallel
    /\ appCfg.FundingConcurrency = FundingSlots

SpecFundFair == InitFundFair /\ [][NextRunParallel]_vars /\ FairFunding

(***************************************************************************)
(* SendParallelTransactions bounded by MaxTransactions (part_003:235-317). *)
(* The attempts are alike, so they are counted rather than told apart.     *)
(***************************************************************************)

\* part_003:240 -- the capacity of the variant's semaphore.
BoundedSlots == 100

\* One transaction more than the gate has slots.
GateTransactions == BoundedSlots + 1

\* The runs explored: two wallets with two transactions each, and one wallet
\* with more transactions than the gate has slots.
BoundedConfigChoices ==
    {[Wallets |-> 2, MaxTransactions |-> 2],
     [Wallets |-> 1, MaxTransactions |-> GateTransactions]}

\* cap(errChan) (part_003:237).
ErrChanCap == bsCfg.Wallets * bsCfg.MaxTransactions

\* One goroutine per wallet is started and SendParallelTransactions waits in
\* wg.Wait() (part_003:236-246, 294).
InitBounded ==
    /\ NoCallers
    /\ NoEngine
    /\ NoSetup
    /\ bsPc = "waiting"
    /\ bsCfg \in BoundedConfigChoices
    /\ bsI = [w \in 1..bsCfg.Wallets |-> 0]
    /\ bsSemaphore = 0
    /\ bsErrChan = 0
    /\ bsFailed = 0
    /\ errorCount = 0

\* The loop of wallet w acquires a slot, blocking while the gate is full,
\* and starts the attempt in its own goroutine; i++ (part_003:248-253, 291).
\* The loop returns, and wg.Done() runs, when i reaches MaxTransactions
\* (part_003:244, 248).
BoundedDispatch(w) ==
    /\ bsPc = "waiting"
    /\ bsI[w] < bsCfg.MaxTransactions
    /\ bsSemaphore < BoundedSlots
    /\ bsI' = [bsI EXCEPT ![w] = @ + 1]
    /\ bsSemaphore' = bsSemaphore + 1
    /\ UNCHANGED <<callerSide, engineVars, setupVars, bsPc, bsCfg, bsErrChan,
                   bsFailed, errorCount>>

\* An attempt submits its transaction and returns, releasing its slot
\* (part_003:253, 259-290).  Nothing waits for the attempts, so one may still
\* run when SendParallelTransactions has returned.
BoundedAttemptOk ==
    /\ bsPc \in {"waiting", "returned"}
    /\ bsSemaphore > 0
    /\ bsSemaphore' = bsSemaphore - 1
    /\ UNCHANGED <<callerSide, engineVars, setupVars, bsPc, bsCfg, bsI,
                   bsErrChan, bsFailed, errorCount>>

\* GetNextNonce, SuggestGasPrice, SignTx or SendTransaction fails while the
\* channel is open: the error is sent on errChan, which has room, and the
\* slot is released (part_003:253, 259-289).
BoundedAttemptErr ==
    /\ bsPc = "waiting"
    /\ bsSemaphore > 0
    /\ bsErrChan < ErrChanCap
    /\ bsErrChan' = bsErrChan + 1
    /\ bsFailed' = bsFailed + 1
    /\ bsSemaphore' = bsSemaphore - 1
    /\ UNCHANGED <<callerSide, engineVars, setupVars, bsPc, bsCfg, bsI,
                   errorCount>>

\* One of the four calls fails after close(errChan): the send on the closed
\* channel panics (part_003:259-289, 295).
BoundedAttemptErrClosed ==
    /\ bsPc = "returned"
    /\ bsSemaphore > 0
    /\ bsPc' = "panicked"
    /\ bsFailed' = bsFailed + 1
    /\ bsSemaphore' = bsSemaphore - 1
    /\ UNCHANGED <<callerSide, engineVars, setupVars, bsCfg, bsI, bsErrChan,
                   errorCount>>

\* wg.Wait() returns once every loop has returned: the WaitGroup counts the
\* loops, not the attempts (part_003:243-245, 253).  errChan is closed, the
\* errors in it are counted and SendParallelTransactions returns
\* (part_003:294-316).
BoundedWaitReturns ==
    /\ bsPc = "waiting"
    /\ \A w \in DOMAIN bsI : bsI[w] = bsCfg.MaxTransactions
    /\ errorCount' = bsErrChan
    /\ bsErrChan' = 0
    /\ bsPc' = "returned"
    /\ UNCHANGED <<callerSide, engineVars, setupVars, bsCfg, bsI, bsSemaphore,
                   bsFailed>>

NextBounded ==
    \/ \E w \in DOMAIN bsI : BoundedDispatch(w)
    \/ BoundedAttemptOk
    \/ BoundedAttemptErr
    \/ BoundedAttemptErrClosed
    \/ BoundedWaitReturns

SpecBounded == InitBounded /\ [][NextBounded]_vars

(***************************************************************************)
(* Claims about the NonceManager.                                          *)
(***************************************************************************)

\* C1: while the remote pending count stays at its initial value r0 and no
\* query fails, the values handed out by concurrent GetNextNonce calls are
\* exactly r0, r0+1, ..., r0+N-1, in that order, for every number N of calls
\* completed so far.
C1_ContiguousRunFromInitialRemote ==
    (~remoteMoved /\ ~queryFailed) =>
        \A i \in 1..Len(returned) : returned[i] = r0 + i - 1

\* C1 witness: two values have been handed out, the remote count never moved,
\* no query failed, and a caller is blocked on the mutex another caller holds.
C1_Witness ==
    /\ ~remoteMoved
    /\ ~queryFailed
    /\ Len(returned) >= 2
    /\ \E c \in Callers : pc[c] = "lock" /\ mu # 0 /\ mu # c

\* C2: whatever the remote pending count reports and whichever queries fail,
\* the values returned by successful GetNextNonce calls are strictly
\* increasing in the order the calls held the lock (so none is returned twice).
C2_ReturnedStrictlyIncreasing ==
    \A i \in 1..Len(returned) : \A j \in 1..Len(returned) :
        i < j => returned[i] < returned[j]

\* C2 witness: three values handed out although a query failed in between,
\* the remote count jumped ahead once (a gap in the run) and now lags behind
\* the local counter.
C2_Witness ==
    /\ Len(returned) >= 3
    /\ queryFailed
    /\ remoteMoved
    /\ \E i \in 1..(Len(returned) - 1) : returned[i + 1] > returned[i] + 1
    /\ remote < nm.currentNonce

\* C4: a successful GetNextNonce on an initialized manager returns
\* max(queried remote pending count, local counter), on first use it returns
\* the queried remote count, and the local counter is left at the returned
\* value plus one.
C4_ReturnsMaxOfRemoteAndLocal ==
    [][\A c \in Callers :
         (pc[c] = "finish" /\ op[c] = "get" /\ pendingNonce # Err /\ pc'[c] = "idle") =>
            LET v == IF nm.initialized
                     THEN Max(pendingNonce, nm.currentNonce)
                     ELSE pendingNonce
            IN  /\ returned' = Append(returned, v)
                /\ nm'.currentNonce = v + 1
                /\ nm'.initialized]_vars

\* C4 witness: the second value skipped ahead of the local counter (the remote
\* count had jumped) and the third was taken from the local counter while the
\* remote count lagged behind it.
C4_Witness ==
    /\ Len(returned) >= 3
    /\ returned[2] > returned[1] + 1
    /\ returned[3] = returned[2] + 1
    /\ remote < returned[3]
    /\ ~queryFailed

\* C5: a GetNextNonce whose PendingNonceAt query failed returns at once, after
\* exactly one query, hands out no value and leaves the local counter and the
\* initialized flag unchanged.
C5_FailedQueryConsumesNothing ==
    [][\A c \in Callers :
         (pc[c] = "finish" /\ op[c] = "get" /\ pendingNonce = Err /\ pc'[c] # pc[c]) =>
            /\ pc'[c] = "idle"
            /\ queries = 1
            /\ returned' = returned
            /\ nm' = nm]_vars

\* C5 witness: a GetNextNonce call has returned the error on a manager that
\* had already handed out a value.
C5_Witness ==
    /\ mu = 0
    /\ lastOp = "get"
    /\ pendingNonce = Err
    /\ Len(returned) >= 1
    /\ nm.currentNonce = returned[Len(returned)] + 1

\* C6: a Reset whose query succeeded sets the local counter to the queried
\* remote pending count and marks the manager initialized, whatever the
\* counter was; a Reset whose query failed leaves counter and flag unchanged.
C6_ResetAdoptsRemoteUnconditionally ==
    [][\A c \in Callers :
         (pc[c] = "finish" /\ op[c] = "reset" /\ pc'[c] = "idle") =>
            IF pendingNonce # Err
            THEN nm' = [currentNonce |-> pendingNonce, initialized |-> TRUE]
            ELSE nm' = nm]_vars

\* C6 witness: a Reset has just lowered the local counter to a remote count
\* that is not above a value already handed out.
C6_Witness ==
    /\ mu = 0
    /\ lastOp = "reset"
    /\ pendingNonce # Err
    /\ Len(returned) >= 1
    /\ nm.currentNonce = pendingNonce
    /\ nm.currentNonce <= returned[Len(returned)]

(***************************************************************************)
(* Claims about the ParallelSender.                                        *)
(***************************************************************************)

\* Send attempts that hold a slot of the gate and have not finished.
AttemptsInProgress == BagCardinality(attempts)

\* Send attempts inside SendTransaction.
SubmissionsInProgress ==
    BagCardinality([a \in {b \in Attempts : b.pc = "send"} |-> attempts[a]])

\* Wallets whose loop is inside checkWalletBalance, waiting for BalanceAt or
\* SuggestGasPrice.
BalanceChecksInProgress ==
    Cardinality({w \in wallets : loopPc[w] \in {"check", "gasCached", "gasFetched"}})

\* Remote calls of the engine that are in progress: every send attempt is
\* inside PendingNonceAt, SuggestGasPrice or SendTransaction (or pausing
\* before its next try), every balance check inside BalanceAt or
\* SuggestGasPrice, every woken probe inside TransactionByHash.
RemoteCallsInProgress ==
    AttemptsInProgress + BalanceChecksInProgress + probeCall

\* C7: with gate capacity C = MaxConcurrentRequests, at every moment the
\* send attempts that have acquired a slot and not finished, and so the
\* submissions in progress, summed over all wallets, number at most C.
C7_GateBoundsAttempts ==
    /\ AttemptsInProgress <= cfg.MaxConcurrentRequests
    /\ SubmissionsInProgress <= cfg.MaxConcurrentRequests
    /\ semaphore = AttemptsInProgress

\* The gate is full with the attempt of one wallet while the loop of another
\* wallet stands at the gate with attempts left to dispatch.
C7_Witness ==
    /\ AttemptsInProgress = cfg.MaxConcurrentRequests
    /\ SubmissionsInProgress = cfg.MaxConcurrentRequests
    /\ DispatchedTotal < maxDispatch
    /\ \E w \in wallets :
        /\ loopPc[w] = "gate"
        /\ \A a \in Attempts : a.w # w

\* C8: the remote calls in progress that originate from the engine (send
\* attempts, balance checks, verification probes) never exceed the capacity
\* of the gate, however many wallets there are.
C8_RemoteCallsBoundedByGate ==
    RemoteCallsInProgress <= cfg.MaxConcurrentRequests

\* The fee is fixed during a run, so a wallet is below the requirement from
\* the start when its first balance is.
LowFromStart(w) == initBalance[w] < MinRequired(gasPriceNow)

\* The entries a failed balance check of w left in the error log.
BalanceErrors(w) == {i \in 1..Len(errors) : errors[i] = <<w, "balance">>}

\* A low wallet never gets past its first balance check: it begins at most
\* BalanceCheckInterval iterations, reaches the gate only before the last
\* of them, and dispatches at most BalanceCheckInterval - 1 attempts.
StopsAtFirstCheck(w) ==
    /\ iterations[w] <= cfg.BalanceCheckInterval
    /\ loopPc[w] = "gate" => iterations[w] < cfg.BalanceCheckInterval
    /\ dispatched[w] <= cfg.BalanceCheckInterval - 1

EndsAtFailedSubmission(a) ==
    /\ a.pc = "send"
    /\ a.subs = a.attempt
    /\ attempts' = attempts (-) SetToBag({a})
    /\ totalSent' = totalSent

LoopEnds(w) == loopPc[w] # "done" /\ loopPc'[w] = "done"

\* ... because its balance check found the balance below the requirement.
EndsInsufficient(w) ==
    /\ loopPc[w] \in {"gasCached", "gasFetched"}
    /\ ~HasBalance(chkBalance[w], gasPriceNow)
    /\ errors' = errors

\* ... because it saw the context cancelled.
EndsCancelled(w) ==
    /\ loopPc[w] \in {"top", "gate"}
    /\ cancelled
    /\ errors' = errors

\* ... because BalanceAt or SuggestGasPrice failed inside its balance check,
\* which it records.
EndsQueryFailed(w) ==
    /\ loopPc[w] \in {"check", "gasCached", "gasFetched"}
    /\ errors' = recordError(errors, <<w, "balance">>)

\* A send attempt ends in failure in this step.
AttemptFails == totalFailed' = totalFailed + 1

AttemptRetries(a) ==
    \E subs \in {a.subs, a.subs + 1} :
        attempts' = (attempts (-) SetToBag({a})) (+) SetToBag({NextTry(a, subs)})

\* Attempt a leaves the set of attempts in flight, all others stay as they are.
AttemptLeaves(a) == attempts' = attempts (-) SetToBag({a})

\* What a step of one attempt leaves alone: every loop, the wallets' balances
\* and nonce managers, and the counters of submitted and verified sends.
OutsideAttempt ==
    <<loopVars, lastBalance, nodeVars, walletNm, cancelled, totalSent,
      totalSucceeded>>

\* C12: a step in which a send attempt fails, for good or before a retry,
\* changes only that attempt and the failure metrics, and leaves every loop
\* and every other attempt as they were; a step in which one loop terminates
\* leaves every other loop and every attempt as they were.
C12_FailuresAreContained ==
    [][/\ AttemptFails =>
            /\ \E a \in Attempts : AttemptLeaves(a)
            /\ UNCHANGED OutsideAttempt
       /\ (\E a \in Attempts : AttemptRetries(a)) =>
            UNCHANGED <<OutsideAttempt, semaphore, metricVars>>
       /\ \A w \in wallets :
            LoopEnds(w) =>
                /\ \A v \in wallets \ {w} :
                    /\ loopPc'[v] = loopPc[v]
                    /\ balanceCheckCounter'[v] = balanceCheckCounter[v]
                    /\ chkBalance'[v] = chkBalance[v]
                /\ UNCHANGED <<gateVars, walletNm, nodeVars>>]_vars

\* After a failed attempt and the end of one loop on a failed query, the other
\* loop is at the gate and a retried attempt of the ended loop is in flight.
C12_Witness ==
    /\ totalFailed > 0
    /\ \E v \in wallets, w \in wallets :
        /\ loopPc[v] = "done" /\ endReason[v] = "error"
        /\ loopPc[w] = "gate"
        /\ \E a \in Attempts : a.w = v /\ a.attempt > 0

\* SendParallelTransactions has returned and every loop had ended for one of
\* the reasons given.
ReturnedAfter(reasons) ==
    psPc = "returned" =>
        \A w \in wallets : loopPc[w] = "done" /\ endReason[w] \in reasons

\* There is one dispatch loop per wallet.
OneLoopPerWallet ==
    /\ DOMAIN loopPc = wallets
    /\ DOMAIN balanceCheckCounter = wallets

AllLoopsEnded == \A w \in wallets : loopPc[w] = "done"

\* C14 as stated: once the context is cancelled, every dispatch loop
\* eventually terminates and SendParallelTransactions returns, whether or
\* not send attempts are still in flight.
C14_CancelledRunReturns ==
    cancelled ~> (AllLoopsEnded /\ psPc = "returned")

\* C14, the part that holds: once the context is cancelled, every dispatch
\* loop eventually terminates and the coordinator leaves wg.Wait, with no
\* step of any attempt required.
C14_CancelledLoopsEnd ==
    cancelled ~> (AllLoopsEnded /\ psPc # "running")

\* After a cancellation every loop has ended and printSummary has panicked on
\* a log of fewer than ten errors, with a send attempt still in flight.
C14_Witness ==
    /\ cancelled
    /\ AllLoopsEnded
    /\ psPc = "panicked"
    /\ Attempts # {}

\* FundWallets has returned.
FundWalletsReturned == fundErr # Nil

\* C15: every one of the N funding targets is attempted exactly once, so the
\* goroutines waiting, sending, submitted and failed always number N; when
\* FundWallets has returned none is waiting or sending, N - k transfers were
\* submitted where k sends failed, and it returned the count k, nil exactly
\* when k = 0.
C15_EveryTargetAttemptedFailuresCounted ==
    /\ rpPc = "funding" =>
        fundWaiting + fundSemaphore + fundSubmitted + errChan = newWallets
    /\ FundWalletsReturned =>
        /\ fundWaiting = 0
        /\ fundSemaphore = 0
        /\ fundSubmitted = newWallets - errChan
        /\ fundErr = errChan
        /\ (fundErr = 0) <=> (errChan = 0)

\* FundWallets has returned for 10 targets of which 3 failed: 7 transfers
\* were submitted and the error reports 3.
C15_Witness ==
    /\ FundWalletsReturned
    /\ newWallets = 10
    /\ fundSubmitted = 7
    /\ fundErr = 3

\* C16: the funding sends in progress, each holding a slot of FundWallets'
\* semaphore from before its nonce allocation until after its submission,
\* never number more than 50, however many targets there are.
C16_FundingSendsBoundedBySlots ==
    /\ fundSemaphore <= FundingSlots
    /\ FundingSlots = 50

\* With more targets than slots, every slot is taken and a goroutine waits.
C16_Witness ==
    /\ newWallets > FundingSlots
    /\ fundSemaphore = FundingSlots
    /\ fundWaiting > 0

\* SendParallelTransactions runs with one loop for each of the wallets ws.
LoopsStartedFor(ws) ==
    /\ psPc = "running"
    /\ wallets = ws
    /\ DOMAIN loopPc = ws
    /\ \A w \in ws : loopPc[w] = "top"

\* C17: whatever FundWallets returned, runParallel goes on to start the
\* sender, and the sender starts a dispatch loop for the source account and
\* for every generated account, funded or not.
C17_FundingFailuresDoNotAbort ==
    /\ FundWalletsReturned => rpPc \in {"build", "sending"}
    /\ rpPc = "build" => ENABLED StartSending
    /\ rpPc = "sending" =>
        /\ LoopsStartedFor(1..(1 + newWallets))
        /\ hasBalance => newWallets = appCfg.WalletCount

\* Every funding send of a fleet failed, and the sender runs a loop for the
\* source account and for each of the unfunded accounts.
C17_Witness ==
    /\ rpPc = "sending"
    /\ newWallets = MaxTargets
    /\ fundErr = MaxTargets
    /\ Cardinality(wallets) = MaxTargets + 1

\* C18: the error log never holds more than 1000 entries, however many
\* errors are recorded.
C18_ErrorLogBounded ==
    /\ Len(errors) <= ErrorCap
    /\ ErrorCap = 1000

\* More attempts have failed than the log holds, and the log is full.
C18_Witness ==
    /\ totalFailed > ErrorCap
    /\ Len(errors) = ErrorCap

\* C19: the balance test passes exactly when the source account's balance is
\* strictly greater than the configured minimum; when it passes the fleet of
\* cfg.WalletCount accounts is generated and funded and the sender runs on
\* the original account and the fleet, and when the balance is equal to or
\* below the minimum nothing is generated and the sender runs on the original
\* account only.
C19_FleetExactlyWhenAboveMinimum ==
    [][/\ (rpPc = "checkBalance" /\ rpPc' = "wallets") =>
            (hasBalance' <=> srcBalance > appCfg.MinBalance)
       /\ rpPc = "wallets" =>
            IF hasBalance
            THEN rpPc' = "funding" /\ newWallets' = appCfg.WalletCount
                                   /\ fundWaiting' = appCfg.WalletCount
            ELSE rpPc' = "build" /\ newWallets' = 0
       /\ (rpPc = "build" /\ rpPc' = "sending") =>
            wallets' = IF hasBalance THEN 1..(1 + appCfg.WalletCount) ELSE {1}
      ]_vars

\* The source account holds exactly the minimum, a fleet is configured, and
\* the sender runs on the original account only.
C19_Witness ==
    /\ rpPc = "sending"
    /\ srcBalance = appCfg.MinBalance
    /\ appCfg.WalletCount > 0
    /\ wallets = {1}
    /\ fundErr = Nil

\* C20 as stated: in parallel mode the admission gate has the configured
\* MAX_CONCURRENT_REQUESTS slots, the balance check interval is the
\* configured BALANCE_CHECK_INTERVAL, and FundWallets has the configured
\* FUNDING_CONCURRENCY slots, for every valid configuration.
C20_ConfiguredLimitsEnforced ==
    /\ rpPc = "funding" => FundingSlots = appCfg.FundingConcurrency
    /\ rpPc = "sending" =>
        /\ cfg.MaxConcurrentRequests = appCfg.MaxConcurrentRequests
        /\ cfg.BalanceCheckInterval = appCfg.BalanceCheckInterval

\* Configured with a gate of one slot and a balance check at every attempt,
\* the sender runs with its own defaults.
C20_Witness ==
    /\ rpPc = "sending"
    /\ appCfg.MaxConcurrentRequests = 1
    /\ appCfg.BalanceCheckInterval = 1
    /\ cfg.MaxConcurrentRequests = DefaultMaxConcurrentRequests
    /\ cfg.BalanceCheckInterval = DefaultBalanceCheckInterval

\* The loop of w is inside a balance check.
InBalanceCheck(w) == loopPc[w] \in {"check", "gasCached", "gasFetched"}

\* The loop of w is inside the balance check of its K-th iteration, its first.
InFirstBalanceCheck(w) ==
    InBalanceCheck(w) /\ iterations[w] = cfg.BalanceCheckInterval

\* The loop of w has passed a balance check and stands at the gate in the
\* same iteration.
PassedBalanceCheck(w) == loopPc[w] = "gate" /\ balanceCheckCounter[w] = 0

FundingStarts ==
    /\ rpPc = "funding"
    /\ newWallets > 0
    /\ fundWaiting = newWallets

\* C22 as stated, for the parallel mode: when the funding goroutines start,
\* a Reset has initialized the source account's NonceManager.
C22_ResetBeforeFunding == FundingStarts => nm.initialized

\* C22, the part that holds: in 'all' and 'deploy' mode no worker has started
\* before Reset has initialized the NonceManager they share.
C22_ResetBeforeWorkers ==
    (\E k \in Workers : wpc[k] # "idle") => nm.initialized

\* Several funding goroutines hold a slot, each about to call GetNextNonce,
\* and the NonceManager they share has not been initialized.
C22_Witness ==
    /\ rpPc = "funding"
    /\ fundSemaphore > 1
    /\ ~nm.initialized

\* The loop of w stands at the gate and the gate is full.
AtFullGate(w) == loopPc[w] = "gate" /\ ~GateOpen

\* C23: a loop at a full gate can always take a step, the end of its pause or
\* its return on cancellation; that step dispatches nothing and takes it to
\* the head of its next iteration or ends it; and a loop at a full gate when
\* the context is cancelled eventually terminates.
C23_FullGateNeverBlocks ==
    /\ [](\A w \in wallets :
            AtFullGate(w) => ENABLED (LoopGateFull(w) \/ LoopCancelled(w)))
    /\ [][\A w \in wallets :
            (AtFullGate(w) /\ loopPc'[w] # loopPc[w]) =>
                /\ loopPc'[w] = IF cancelled THEN "done" ELSE "top"
                /\ dispatched' = dispatched]_vars
    /\ \A w \in 1..NumWallets :
            (AtFullGate(w) /\ cancelled) ~> (loopPc[w] = "done")

\* A loop stands at the full gate and the context is cancelled.
C23_Witness == \E w \in wallets : AtFullGate(w) /\ cancelled

\* The configurations of the runs explored.
ExploredConfigs ==
    {NewParallelSender(c) :
        c \in ConfigChoices \cup CancelConfigChoices \cup SustainedConfigChoices
              \cup {JoinConfig, ScenarioConfig}}

\* C24 as stated: both policies for a full gate, skipping the tick and
\* waiting briefly, are applied by the dispatch loop, each under some
\* configuration.
C24_BothGatePoliciesSelectable ==
    psPc = "running" =>
        {GatePolicy(c) : c \in ExploredConfigs \cup {cfg}} = {"skip", "wait"}

\* A loop has found the gate full in an earlier iteration and finds it full
\* again, under a configuration that makes it wait.
C24_Witness ==
    \E w \in wallets :
        /\ AtFullGate(w)
        /\ iterations[w] > dispatched[w] + 1
        /\ GatePolicy(cfg) = "wait"

\* The balance a balance check of w decides on: the one it has obtained,
\* fetched or cached, and the balance of the account while it has none.
BalanceAtCheck(w) ==
    IF loopPc[w] = "check" THEN balance[w] ELSE chkBalance[w]

\* The loop of w leaves its balance check in this step.
LeavesBalanceCheck(w) == InBalanceCheck(w) /\ ~InBalanceCheck(w)'

BeginsNextBalanceCheck(w) ==
    /\ loopPc[w] = "top"
    /\ loopPc'[w] = "check"
    /\ sinceCheck[w] # Nil

\* C26 as stated: exactly BalanceCheckInterval attempts are dispatched
\* between two consecutive balance checks of the same account, also when
\* iterations in between found the gate full and dispatched nothing.
C26_IntervalCountsAttempts ==
    [][\A w \in wallets :
        BeginsNextBalanceCheck(w) =>
            sinceCheck[w] = cfg.BalanceCheckInterval]_vars

\* The loop of w is about to begin the iteration of its next balance check
\* and has dispatched fewer than BalanceCheckInterval attempts since the
\* last one.
C26_Witness ==
    \E w \in wallets :
        /\ loopPc[w] = "top"
        /\ ~cancelled
        /\ balanceCheckCounter[w] = cfg.BalanceCheckInterval - 1
        /\ sinceCheck[w] # Nil
        /\ sinceCheck[w] < cfg.BalanceCheckInterval

\* The kinds of the errors logged so far.
LoggedKinds == {errors[i][2] : i \in 1..Len(errors)}

C28_NoDispatchAfterCancel ==
    [][cancelled => dispatched' = dispatched]_vars

\* C28: once the context is cancelled no loop begins a new iteration, and a
\* loop that had passed the test of the context at the head of its iteration
\* when the cancellation came dispatches at most the attempt of that
\* iteration: at most one attempt per loop is dispatched after cancellation.
C28_AtMostOneDispatchAfterCancel ==
    /\ [](\A w \in wallets : lateDispatched[w] <= 1)
    /\ [][\A w \in wallets :
            (cancelled /\ loopPc[w] = "top") => loopPc'[w] \in {"top", "done"}]_vars
    /\ [][\A w \in wallets :
            lateDispatched'[w] # lateDispatched[w] =>
                cancelled /\ loopPc[w] = "gate" /\ loopPc'[w] = "top"]_vars

\* Every loop has dispatched an attempt after the cancellation and has then
\* returned on it.
C28_Witness ==
    /\ cancelled
    /\ \A w \in wallets :
        /\ lateDispatched[w] = 1
        /\ loopPc[w] = "done"
        /\ endReason[w] = "cancelled"

\* A verification probe gets its answer from TransactionByHash in this step.
ProbeAnswered == probeCall' = probeCall - 1

\* C29: a successful submission starts one verification probe and the
\* attempt returns without it; a probe changes nothing of the loops, the
\* gate or the attempts; its answer adds exactly one to the succeeded counter
\* when the transaction is known (mined or pending) and leaves the succeeded
\* and the failed counter as they are when the query fails; nothing else
\* changes the succeeded counter, and every probe counts at most once.
C29_ProbeCountsKnownOnce ==
    /\ [](totalSucceeded + probeSleep + probeCall <= totalSent)
    /\ [][/\ totalSent' # totalSent =>
                /\ totalSent' = totalSent + 1
                /\ probeSleep' = probeSleep + 1
                /\ semaphore' = semaphore - 1
                /\ UNCHANGED <<loopVars, totalSucceeded, totalFailed>>
          /\ (ProbeWake \/ ProbeOk \/ ProbeErr) =>
                UNCHANGED <<loopVars, gateVars, totalSent, totalFailed, errors>>
          /\ ProbeOk => totalSucceeded' = totalSucceeded + 1
          /\ ProbeErr => totalSucceeded' = totalSucceeded
          /\ totalSucceeded' # totalSucceeded =>
                ProbeAnswered /\ totalSucceeded' = totalSucceeded + 1]_vars

\* Two submissions have succeeded and their attempts and loops are gone;
\* one probe found its transaction and the other failed: one success and no
\* failure is counted.
C29_Witness ==
    /\ totalSent = 2
    /\ probeSleep = 0
    /\ probeCall = 0
    /\ totalSucceeded = 1
    /\ totalFailed = 0
    /\ Attempts = {}

\* Attempt a records error e in this step: its GetNextNonce fails, or its
\* last submission does.
Records(a, e) ==
    \/ e = <<a.w, "nonce">> /\ AttemptNonceErr(a)
    \/ e = <<a.w, "send">> /\ ~MayRetry(a) /\ AttemptSendErr(a)

\* C30 as stated: the log ends with the error recorded last, and recording
\* an error while the log is full evicts the oldest entry.
C30_FullLogKeepsLatest ==
    [][\A a \in Attempts : \A e \in {<<a.w, "nonce">>, <<a.w, "send">>} :
        Records(a, e) =>
            /\ errors'[Len(errors')] = e
            /\ Len(errors) = ErrorCap => errors' = Append(Tail(errors), e)]_vars

\* The log is full of failed submissions and one more attempt has failed,
\* without taking a nonce: its failed GetNextNonce is not in the log.
C30_Witness ==
    /\ Attempts = {}
    /\ Len(errors) = ErrorCap
    /\ totalFailed = ErrorCap + 1
    /\ LoggedKinds = {"send"}
    /\ \E w \in wallets :
        walletNm[w].currentNonce = (cfg.MaxRetries + 1) * ErrorCap

SummaryFrom == Len(errors) - 10

\* C32 as stated: whatever the number of recorded errors, the summary
\* completes, and when it prints errors the slice it takes begins inside the
\* log.
C32_SummaryCompletes ==
    /\ psPc # "panicked"
    /\ (psPc = "returned" /\ Len(errors) > 0) => SummaryFrom >= 0

\* The loops have ended with nine errors recorded and printSummary has
\* panicked on the slice that begins at index -1.
C32_Witness ==
    /\ psPc = "panicked"
    /\ Len(errors) = 9
    /\ SummaryFrom = -1

\* The tries attempt a has begun: attempt + 1 (part_003:515).
TriesOf(a) == a.attempt + 1

\* The numbers of wallet w handed out so far, none of them given back.
CounterKept(w) ==
    /\ walletNm'[w].currentNonce >= walletNm[w].currentNonce
    /\ walletNm[w].initialized => walletNm'[w].initialized

C34_WaitNeverLowersCounter ==
    [][WaitStore =>
          /\ nm'.currentNonce >= nm.currentNonce
          /\ \A i \in 1..Len(returned) : returned[i] < nm'.currentNonce]_vars

\* WaitForNonceUpdate has returned and the counter is not above a nonce
\* the manager handed out before.
C34_Witness ==
    /\ wpc[Deploy] = "next"
    /\ delaySeconds = 0
    /\ wpending > wnonce[Deploy]
    /\ nm.currentNonce = wpending
    /\ \E i \in 1..Len(returned) : returned[i] >= nm.currentNonce

\* Attempt a returns at the cancellation check at the head of a try
\* (part_003:517-521): it leaves without recording an error.
EndsAtCancelCheck(a) ==
    /\ a.pc = "nonce"
    /\ cancelled
    /\ AttemptLeaves(a)
    /\ errors' = errors

\* What the step adds to totalSent and totalFailed together.
AddedToSentOrFailed == (totalSent' - totalSent) + (totalFailed' - totalFailed)

\* C35: at every moment succeeded <= sent and sent + failed <= the number of
\* attempts dispatched; an attempt that ends otherwise than at its
\* cancellation check adds exactly 1 to exactly one of sent and failed, and
\* an attempt that ends at its cancellation check adds to neither.
C35_CountersFollowAttempts ==
    /\ [](/\ totalSucceeded <= totalSent
          /\ totalSent + totalFailed <= DispatchedTotal)
    /\ [][\A a \in Attempts :
            AttemptLeaves(a) =>
                /\ totalSent' >= totalSent
                /\ totalFailed' >= totalFailed
                /\ AddedToSentOrFailed =
                       IF EndsAtCancelCheck(a) THEN 0 ELSE 1]_vars

\* After cancellation no attempt is left in flight; one has been counted as
\* sent or failed, and another ended at its cancellation check and was
\* counted as neither.
C35_Witness ==
    /\ cancelled
    /\ AttemptsInProgress = 0
    /\ totalSent + totalFailed > 0
    /\ totalSent + totalFailed < DispatchedTotal

\* ---- the recipient choice of a send attempt (part_003:412, 443-444, 512)

\* The setting explored: a gate of two slots, so that two attempts of one
\* wallet can be in flight together.
RecipientConfig ==
    CHOOSE c \in ConfigChoices : c.MaxConcurrentRequests = 2

\* The attempt as its goroutine starts: rng.Intn is its first statement
\* (part_003:442-444, 512).  In the other runs the choice of the recipient,
\* which no other step reads, is taken together with the dispatch.
StartedAttempt(w) == [NewAttempt(w) EXCEPT !.pc = "pick"]

\* LoopDispatch, with the attempt at its first statement.
LoopDispatchPicking(w) ==
    /\ loopPc[w] = "gate"
    /\ GateOpen
    /\ DispatchedTotal < maxDispatch
    /\ semaphore' = semaphore + 1
    /\ attempts' = attempts (+) SetToBag({StartedAttempt(w)})
    /\ dispatched' = [dispatched EXCEPT ![w] = @ + 1]
    /\ loopPc' = [loopPc EXCEPT ![w] = "top"]
    /\ UNCHANGED <<outsideEngine, engineCfg, cancelled, balanceCheckCounter,
                   chkBalance, lastBalance, cacheFresh, nodeVars, walletNm,
                   probeVars, metricVars, iterations, endReason, initBalance>>
    /\ sinceCheck' = [sinceCheck EXCEPT ![w] = IF @ = Nil THEN Nil ELSE @ + 1]
    /\ lateDispatched' = [lateDispatched EXCEPT ![w] = IF cancelled THEN @ + 1 ELSE @]

\* The attempts of wallet w that are inside rng.Intn: w's loop made one
\* *rand.Rand (part_003:412) and hands it to every attempt it starts
\* (part_003:444); no lock is taken around the call (part_003:512).
RngUsers(w) ==
    BagCardinality([a \in {b \in Attempts : b.w = w /\ b.pc = "picking"}
                        |-> CopiesIn(a, attempts)])

\* rng.Intn(len(ps.recipients)) begins: it reads and writes the state of
\* w's source (part_003:512).
AttemptPickBegin(a) ==
    /\ a.pc = "pick"
    /\ Continue(a, [a EXCEPT !.pc = "picking"])
    /\ UNCHANGED <<outsideEngine, engineCfg, cancelled, loopVars, lastBalance,
                   cacheFresh, nodeVars, walletNm, probeVars, metricVars,
                   histEngine>>

\* rng.Intn returns an index of ps.recipients, whatever the source's state.
AttemptPickEnd(a) ==
    /\ a.pc = "picking"
    /\ Continue(a, [a EXCEPT !.pc = "nonce"])
    /\ UNCHANGED <<outsideEngine, engineCfg, cancelled, loopVars, lastBalance,
                   cacheFresh, nodeVars, walletNm, probeVars, metricVars,
                   histEngine>>

\* rng.Intn, overlapping with the call of another attempt on the same
\* source, reads an index of the source's vector between the other call's
\* decrement and wrap-around: the goroutine panics.  The runtime then ends
\* the process; the steps the other goroutines take until it has done so are
\* steps of NextRecipient.
AttemptPickPanics(a) ==
    /\ a.pc = "picking"
    /\ RngUsers(a.w) > 1
    /\ Continue(a, [a EXCEPT !.pc = "panicked"])
    /\ UNCHANGED <<outsideEngine, engineCfg, cancelled, loopVars, lastBalance,
                   cacheFresh, nodeVars, walletNm, probeVars, metricVars,
                   histEngine>>

LoopStepPicking(w) ==
    \/ LoopTick(w)
    \/ CheckCacheHit(w)
    \/ BalanceAtOk(w)
    \/ BalanceAtErr(w)
    \/ CheckGasPriceOk(w)
    \/ CheckGasPriceErr(w)
    \/ LoopDispatchPicking(w)
    \/ LoopGateFull(w)

AttemptStepPicking(a) ==
    \/ AttemptPickBegin(a)
    \/ AttemptPickEnd(a)
    \/ AttemptPickPanics(a)
    \/ AttemptStep(a)

NextRecipient ==
    \/ \E w \in wallets : LoopStepPicking(w)
    \/ \E a \in Attempts : AttemptStepPicking(a)
    \/ ProbeWake
    \/ ProbeOk
    \/ ProbeErr
    \/ Join

InitRecipient ==
    \E price \in GasPrices, bal \in [1..NumWallets -> BalanceChoices] :
        /\ \A v \in 1..NumWallets, w \in 1..NumWallets : v < w => bal[v] <= bal[w]
        /\ StartParallel(1..NumWallets, RecipientConfig, MaxDispatch, bal, price)

SpecRecipient == InitRecipient /\ [][NextRecipient]_vars

\* C36: the random source of an account is never used by two send attempts
\* at the same time: at most one attempt of a wallet is inside rng.Intn.
C36_RngUsedByOneAttemptAtATime ==
    \A w \in wallets : RngUsers(w) <= 1

\* Two attempts of one wallet were inside rng.Intn together and one of them
\* has panicked.
C36_Witness ==
    \E a \in Attempts : \E b \in Attempts :
        /\ a.w = b.w
        /\ a.pc = "panicked"
        /\ b.pc = "picking"

\* C37: every slot a loop acquires is released exactly once, when its attempt
\* ends (success, final failure, non-retryable failure or cancellation): the
\* occupied slots always number the attempts in progress, so none are
\* occupied when no attempt remains; the step in which an attempt ends frees
\* one slot, no other step frees one, and a retry keeps the slot.
C37_SlotHeldWhileAttemptRuns ==
    /\ [](semaphore = AttemptsInProgress)
    /\ [][/\ \A a \in Attempts :
               /\ AttemptLeaves(a) => semaphore' = semaphore - 1
               /\ AttemptRetries(a) => semaphore' = semaphore
          /\ semaphore' < semaphore =>
               \E a \in Attempts : AttemptLeaves(a)]_vars

\* Two slots were acquired and both are free again: one attempt ended in a
\* recorded failure and the other at its cancellation check.
C37_Witness ==
    /\ cancelled
    /\ DispatchedTotal = 2
    /\ totalFailed = 1
    /\ totalSent = 0
    /\ AttemptsInProgress = 0
    /\ semaphore = 0

\* The funding goroutines that have not returned: those waiting for a slot
\* and those holding one.
FundWorkersRunning == fundWaiting + fundSemaphore

\* C38: FundWallets always terminates, for any number of targets (also more
\* than its 50 slots) and any pattern of failures, provided each remote call
\* returns: once started it returns, it has returned only when every worker
\* has finished, and a worker that holds a slot can always finish, by a
\* submission or by a send on the error channel, which has room.
C38_FundWalletsTerminates ==
    /\ (rpPc = "funding") ~> (rpPc = "build" /\ FundWorkersRunning = 0)
    /\ [](rpPc \in {"build", "sending"} => FundWorkersRunning = 0)
    /\ []((rpPc = "funding" /\ fundSemaphore > 0) => ErrChanHasRoom)

\* FundWallets has returned for more targets than it has slots, every one of
\* which failed: the error channel was filled to its capacity.
C38_Witness ==
    /\ rpPc = "build"
    /\ newWallets = MaxTargets
    /\ newWallets > FundingSlots
    /\ errChan = newWallets
    /\ fundErr = newWallets

\* C39: in the bounded variant the error channel is closed only after every
\* dispatched attempt has finished: no attempt sends on the closed channel,
\* and the reported error count equals the number of failed attempts.
C39_ClosedAfterAttemptsFinish ==
    /\ bsPc = "returned" => bsSemaphore = 0
    /\ bsPc # "panicked"
    /\ bsPc \in {"returned", "panicked"} => errorCount = bsFailed

\* An attempt that was still running when the channel was closed has failed
\* and sent on the closed channel; its failure is not in the reported count.
C39_Witness ==
    /\ bsPc = "panicked"
    /\ errorCount < bsFailed

====
